---- MODULE Spec2Model ----
(***************************************************************************)
(* Android-Use (adk-droid): the correlated request/response transport      *)
(* (main_files/connection_manager.py), the websocket handler and receiver  *)
(* (main.py) and the skeleton of the task loop that calls the transport    *)
(* (android_use_agent/task_manager.py).                                    *)
(*                                                                         *)
(* Everything runs on one asyncio event loop: an action is the code a      *)
(* coroutine or a loop callback executes between two suspension points.    *)
(* asyncio.Lock is never held across an await in connection_manager.py, so *)
(* `async with self._pending_requests_lock` never suspends and the locked  *)
(* statement belongs to the action that contains it.                       *)
(*                                                                         *)
(* A message the receiver puts on command_q is taken by the handler, which *)
(* does nothing else in between: the put and the get are one action, also  *)
(* for the _internal_error the receiver queues when the client closes.     *)
(* The receiver runs exactly while the handler serves.                     *)
(*                                                                         *)
(* The state of a call (its Future, the queued set_result callback, how it *)
(* ended) is kept per task loop: a task loop has one call outstanding at a *)
(* time.  The record lives from the call's start until the loop has used   *)
(* the returned value; the map of pending requests outlives it.            *)
(***************************************************************************)
EXTENDS Integers, Sequences, FiniteSets, TLC

\* ---------------------------------------------------------------- bounds
MaxId == 2          \* correlation ids (uuid4 values) issued in one run

Sessions == {"s1", "s2"}
Handlers == {"h1", "h2"}       \* websocket connections = handler coroutines
Ids == 1..MaxId
Data == {"data"}               \* content of a response, not looked into

\* the `type` of a response envelope (task_comms.py, lines 32 and 34)
Types == {"screenshot_result", "execution_result"}
NoConn == "none"               \* no websocket registered / no task stored

\* a response envelope: it echoes the correlation id (main.py:195)
Msg(c, d) == <<c, d>>
Nothing == <<0, "nothing">>    \* an empty slot

\* What a call returned.  The code returns None in both failure cases; the
\* model keeps the reason.
NotReturned == <<0, "not">>
NoConnection == <<0, "no_connection">>
Timeout == <<0, "timeout">>
Failures == {NoConnection, Timeout}

\* The log lines of resolve_pending_request: "scheduled" (line 131),
\* "already_done" (line 147), "not_found" (line 149).
NoLog == ""

VARIABLES
    legacyWaitFor,        \* TRUE: asyncio.wait_for of Python <= 3.11 (releases a
                          \* waiter), FALSE: Python >= 3.12 (timeout cancels task)
    active_connections,   \* ConnectionManager.active_connections
    pending_requests,     \* keys of ConnectionManager._pending_requests
    nextId,               \* next fresh correlation id
    owner,                \* correlation id -> session whose call registered it
    hpc,                  \* position of websocket_endpoint
    hsession,             \* session_id path parameter of the connection
    task_to_cancel,       \* local of the handler's cleanup
    stored_task_loop,     \* session.state['current_task_loop'] per session id
    lpc,                  \* position of the task loop created by the handler
    lkind,                \* which call of the step the loop is in
    cancelReq,            \* Task.cancel() was called, CancelledError not yet raised
    lcid,                 \* correlation id of the loop's call, 0 without one
    fut,                  \* state of the Future of that call
    futValue,             \* result stored in the Future
    scheduled,            \* argument of the set_result callback queued by
                          \* call_soon_threadsafe, Nothing when none is queued
    late,                 \* loops whose callback is queued behind their wake-up
    sentOn,               \* what became of the request: "sent", or "failed" when
                          \* send_text raised; NoConn when nothing was sent
    resolved,             \* history: payload of the resolve that popped the entry
    expired,              \* history: the timeout elapsed before any resolve
    returned,             \* the value the call returned to the loop
    logged                \* what resolve_pending_request logged in the step
                          \* just taken

\* ------------------------------------------- the steps of run_task_loop
\* The state one run_task_loop call after the other works on: its locals and
\* the keys of session.state it reads and writes.
VARIABLES
    implementation,       \* which module's loop runs: "android_use_agent"
                          \* (android_use_agent/task_manager.py, the one main.py
                          \* starts) or "legacy" (task_manager.py)
    final_status,         \* local final_status; "idle" before the first call,
                          \* after the return the status of final_result
    steps_taken,          \* local steps_taken, also in final_result
    consecutive_action_failures,
    steps_without_state_change,
    previous_state_hash,  \* local previous_state_hash
    recent_failed_tap_selectors,  \* state['recent_failed_tap_selectors']
    evicted,              \* history: <<the selector the deque dropped last>>
    redispatched,         \* history: the tap request sent last went to the
                          \* selector the deque had dropped last
    last_action_result,   \* state['last_action_result'], by its kind
    task_state,           \* state['task_state']: [status, last_screenshot_hash,
                          \* error_message]
    requested,            \* what the step just taken sent through the
                          \* Transport after the Reasoner's decision
    pre_execution,        \* legacy loop: outcome of the check before execution
    exit_trace,           \* history: the error and warning notifications, the
                          \* writes of state['task_state'] and the update of
                          \* the session made by the pass that left the loop
                          \* and by the lines after the loop, in their order
    final_result,         \* the dict the call returned: its keys and which
                          \* text its error or message holds
    goal,                 \* the goal argument of the run_task_loop call
    state_goal,           \* state['goal'] of the session, "None" when absent
    connection,           \* history: the number of the websocket connection
                          \* the session is on
    last_state_hash,      \* legacy loop: local last_state_hash, <<>> for None
    history_last,         \* legacy loop: the last entry of state["history"]
    appended,             \* legacy loop: the step just taken appended an
                          \* entry to state["history"]
    failed_tap_hashes,    \* legacy loop: state["failed_tap_hashes"]
    slept,                \* legacy loop: the seconds the step just taken
                          \* slept for a wait decision, 0 without one
    hashed_nodes,         \* the node list _calculate_state_hash was given
    state_hash            \* and the hash it returned, <<>> before a call

transportVars == <<legacyWaitFor, active_connections, pending_requests, nextId,
                   owner, hpc, hsession, task_to_cancel, stored_task_loop,
                   lpc, lkind, cancelReq, lcid, fut, futValue, scheduled, late,
                   sentOn, resolved, expired, returned, logged>>

taskVars == <<implementation, final_status, steps_taken,
              consecutive_action_failures, steps_without_state_change,
              previous_state_hash, recent_failed_tap_selectors, evicted,
              redispatched,
              last_action_result, task_state, requested, pre_execution,
              exit_trace, final_result,
              goal, state_goal, connection,
              last_state_hash, history_last, appended, failed_tap_hashes,
              slept, hashed_nodes, state_hash>>

\* what a websocket session keeps besides the task loop's own state
sessionVars == <<goal, state_goal, connection>>
\* the state of the legacy loop (task_manager.py) that the loop of
\* android_use_agent/task_manager.py has no counterpart for
legacyVars == <<last_state_hash, history_last, appended, failed_tap_hashes,
                slept>>
hashVars == <<hashed_nodes, state_hash>>

vars == <<transportVars, taskVars>>

callVars == <<lcid, fut, futValue, scheduled, late, sentOn, resolved, expired,
              returned>>
mapVars == <<pending_requests, nextId, owner>>

\* ------------------------------------------------------------------ Init
\* no entry of state["history"] yet
NoEntry == [node_request |-> FALSE, success |-> FALSE, nodes |-> <<>>]

\* a session that was just created with state={} (main.py:294-299), on its
\* first connection, and the locals of a loop that has not started
FreshSession ==
    /\ goal = "None"
    /\ state_goal = "None"
    /\ connection = 1
    /\ last_state_hash = <<>>
    /\ history_last = NoEntry
    /\ appended = FALSE
    /\ failed_tap_hashes = {}
    /\ slept = 0
    /\ hashed_nodes = <<>>
    /\ state_hash = <<>>

\* no task loop has run in the session
NoTaskYet ==
    /\ implementation = "android_use_agent"
    /\ final_status = "idle"
    /\ steps_taken = 0
    /\ consecutive_action_failures = 0
    /\ steps_without_state_change = 0
    /\ previous_state_hash = "None"
    /\ recent_failed_tap_selectors = <<>>
    /\ evicted = <<>>
    /\ redispatched = FALSE
    /\ FreshSession
    /\ last_action_result = "None"
    /\ task_state = [status |-> "absent", last_screenshot_hash |-> "None",
                     error_message |-> "None"]
    /\ requested = "nothing"
    /\ pre_execution = "none"
    /\ exit_trace = <<>>
    /\ final_result = [fields |-> {}, text |-> "none"]

TransportInit ==
    /\ legacyWaitFor \in BOOLEAN
    /\ active_connections = [s \in Sessions |-> NoConn]
    /\ pending_requests = {}
    /\ nextId = 1
    /\ owner = [c \in Ids |-> NoConn]
    /\ hpc = [h \in Handlers |-> "closed"]
    /\ hsession = [h \in Handlers |-> "s1"]
    /\ task_to_cancel = [h \in Handlers |-> NoConn]
    /\ stored_task_loop = [s \in Sessions |-> NoConn]
    /\ lpc = [h \in Handlers |-> "none"]
    /\ lkind = [h \in Handlers |-> "observe"]
    /\ cancelReq = [h \in Handlers |-> FALSE]
    /\ lcid = [h \in Handlers |-> 0]
    /\ fut = [h \in Handlers |-> "unborn"]
    /\ futValue = [h \in Handlers |-> Nothing]
    /\ scheduled = [h \in Handlers |-> Nothing]
    /\ late = {}
    /\ sentOn = [h \in Handlers |-> NoConn]
    /\ resolved = [h \in Handlers |-> Nothing]
    /\ expired = {}
    /\ returned = [h \in Handlers |-> NotReturned]
    /\ logged = NoLog

Init == NoTaskYet /\ TransportInit

\* --------------------------------------------------------------- helpers
\* Task.done() of the task loop created by handler l
TaskDone(l) == lpc[l] \in {"none", "ended", "cancelled"}

\* the loop is inside send_request_and_wait_for_response
InCall(l) == lpc[l] \in {"waiting", "timedout"}

\* the task loop whose outstanding call registered the id, if any
CallOf(cid) == {l \in Handlers : lcid[l] = cid}

\* wait_for is over: nothing refers to the Future any more, and a callback
\* still queued for it changes nothing
DropFuture(l) ==
    /\ fut' = [fut EXCEPT ![l] = "unborn"]
    /\ futValue' = [futValue EXCEPT ![l] = Nothing]
    /\ scheduled' = [scheduled EXCEPT ![l] = Nothing]
    /\ late' = late \ {l}

\* the call's frame is gone
ForgetCall(l) ==
    /\ lcid' = [lcid EXCEPT ![l] = 0]
    /\ DropFuture(l)
    /\ sentOn' = [sentOn EXCEPT ![l] = NoConn]
    /\ resolved' = [resolved EXCEPT ![l] = Nothing]
    /\ expired' = expired \ {l}
    /\ returned' = [returned EXCEPT ![l] = NotReturned]
    /\ lkind' = [lkind EXCEPT ![l] = "observe"]

\* ------------------------------------------------- the task loop skeleton
\* A task that finishes wakes the handlers whose cleanup awaits it
\* (main.py:492 `await task_to_cancel`).
WakeAwaiters(l) ==
    [h \in Handlers |->
        IF hpc[h] = "awaiting" /\ task_to_cancel[h] = l
        THEN "task_awaited" ELSE hpc[h]]

\* run_task_loop leaves its for-loop and returns (task_manager.py:663-704)
LoopReturns(l) ==
    /\ lpc' = [lpc EXCEPT ![l] = "ended"]
    /\ hpc' = WakeAwaiters(l)

\* The end of one step (task_manager.py:557-592 and the `for` at 291): a
\* terminal decision, a counter or the step limit ends the task, otherwise
\* the next step starts.  Every step needs a correlation id for its screen
\* capture, so MaxId bounds the steps of a run before max_steps (25) does.
StepEnd(l) ==
    \/ LoopReturns(l)
    \/ /\ lpc' = [lpc EXCEPT ![l] = "observe"]
       /\ UNCHANGED hpc

\* What the loop does with the value send_request_and_wait_for_response
\* returned: a failed screen capture (None, or a response whose content
\* reports failure or cannot be decoded) ends the task (task_comms.py:105-140
\* and task_manager.py:303-306), a capture goes on to the Reasoner, the
\* result of an action ends the step.
LoopAfter(l, kind, res) ==
    IF kind = "observe"
    THEN \/ /\ res \notin Failures
            /\ lpc' = [lpc EXCEPT ![l] = "reason"]
            /\ UNCHANGED hpc
         \/ LoopReturns(l)
    ELSE StepEnd(l)

\* --------------------------------------------------- ConnectionManager
\* send_personal_message, lines 38-68: websocket.send_text on the websocket
\* of a serving handler goes out; while the handler of the websocket cleans
\* up the connection is closing and send_text may raise, which is caught
\* and logged (lines 62-68).
SendOutcomes(w) ==
    IF hpc[w] = "serving" THEN {"sent"} ELSE {"sent", "failed"}

\* lines 85-89: a fresh correlation id, and a Future stored under it
Register(l, s) ==
    /\ nextId <= MaxId
    /\ pending_requests' = pending_requests \cup {nextId}
    /\ owner' = [owner EXCEPT ![nextId] = s]
    /\ nextId' = nextId + 1
    /\ lcid' = [lcid EXCEPT ![l] = nextId]
    /\ fut' = [fut EXCEPT ![l] = "pending"]

\* A faulty variant: the Future is registered before the websocket is looked
\* up.
BeginRequest_RegisterFirst(l, kind) ==
    LET s == hsession[l]
        w == active_connections[s]
    IN  /\ lkind' = [lkind EXCEPT ![l] = kind]
        /\ UNCHANGED hpc
        /\ Register(l, s)
        /\ IF w = NoConn
           THEN /\ returned' = [returned EXCEPT ![l] = NoConnection]
                /\ lpc' = [lpc EXCEPT ![l] = "returned"]
                /\ UNCHANGED <<futValue, scheduled, late, sentOn, resolved,
                               expired>>
           ELSE /\ \E out \in SendOutcomes(w) :
                       sentOn' = [sentOn EXCEPT ![l] = out]
                /\ lpc' = [lpc EXCEPT ![l] = "waiting"]
                /\ UNCHANGED <<futValue, scheduled, late, resolved, expired,
                               returned>>

\* send_request_and_wait_for_response, lines 80-102: look the websocket up,
\* return None when there is none; else register a Future under a fresh
\* correlation id, send the request with send_personal_message and start
\* asyncio.wait_for.
BeginRequest(l, kind) ==
    LET s == hsession[l]
        w == active_connections[s]
    IN  /\ lkind' = [lkind EXCEPT ![l] = kind]
        /\ UNCHANGED hpc
        /\ IF w = NoConn
           THEN /\ returned' = [returned EXCEPT ![l] = NoConnection]
                /\ lpc' = [lpc EXCEPT ![l] = "returned"]
                /\ UNCHANGED <<mapVars, lcid, fut, futValue, scheduled, late,
                               sentOn, resolved, expired>>
           ELSE /\ Register(l, s)
                /\ \E out \in SendOutcomes(w) :
                       sentOn' = [sentOn EXCEPT ![l] = out]
                /\ lpc' = [lpc EXCEPT ![l] = "waiting"]
                /\ UNCHANGED <<futValue, scheduled, late, resolved, expired,
                               returned>>

\* resolve_pending_request, lines 126-147, with the Future it popped, which
\* belongs to one of the calls T: a Future that is not done gets set_result
\* queued with call_soon_threadsafe (line 132), a Future that is done is
\* logged.  A callback queued while the caller's wake-up is already in the
\* ready queue of the event loop runs after that wake-up (FIFO).  The Future
\* of an entry whose call is gone was cancelled with it, hence is done.
Fulfil(T, cid, d) ==
    /\ IF T # {}
       THEN LET l == CHOOSE x \in T : TRUE
            IN  /\ resolved' = [resolved EXCEPT ![l] = Msg(cid, d)]
                /\ IF fut[l] = "pending"
                   THEN /\ scheduled' = [scheduled EXCEPT ![l] = Msg(cid, d)]
                        /\ late' = IF legacyWaitFor
                                      /\ (lpc[l] = "timedout" \/ cancelReq[l])
                                   THEN late \cup {l} ELSE late
                        /\ logged' = "scheduled"
                   ELSE /\ logged' = "already_done"
                        /\ UNCHANGED <<scheduled, late>>
       ELSE /\ logged' = "already_done"
            /\ UNCHANGED <<resolved, scheduled, late>>
    /\ UNCHANGED <<nextId, lcid, fut, futValue, sentOn, expired, returned>>

\* A faulty variant: the entry is read, not removed (dict.get for dict.pop).
resolve_pending_request_Get(cid, d) ==
    IF cid \in pending_requests
    THEN /\ UNCHANGED <<pending_requests, owner>>
         /\ Fulfil(CallOf(cid), cid, d)
    ELSE /\ logged' = "not_found"
         /\ UNCHANGED <<mapVars, callVars>>

\* A faulty variant: the response fulfils a Future that is waiting, whatever
\* id it was registered under.
resolve_pending_request_AnyWaiter(cid, d) ==
    IF cid \in pending_requests
    THEN /\ pending_requests' = pending_requests \ {cid}
         /\ owner' = [owner EXCEPT ![cid] = NoConn]
         /\ Fulfil({x \in Handlers : fut[x] = "pending"}, cid, d)
    ELSE /\ logged' = "not_found"
         /\ UNCHANGED <<mapVars, callVars>>

\* A faulty variant: an id that is not in the map is entered into it (a
\* lookup that creates the entry it misses).
resolve_pending_request_Insert(cid, d) ==
    IF cid \in pending_requests
    THEN /\ pending_requests' = pending_requests \ {cid}
         /\ owner' = [owner EXCEPT ![cid] = NoConn]
         /\ Fulfil(CallOf(cid), cid, d)
    ELSE /\ logged' = "not_found"
         /\ pending_requests' = pending_requests \cup {cid}
         /\ UNCHANGED <<nextId, owner, callVars>>

\* resolve_pending_request, lines 118-149: pop the entry under the lock
\* (line 124) and fulfil its Future; an absent entry is logged (lines
\* 148-149).
resolve_pending_request(cid, d) ==
    IF cid \in pending_requests
    THEN /\ pending_requests' = pending_requests \ {cid}
         /\ owner' = [owner EXCEPT ![cid] = NoConn]
         /\ Fulfil(CallOf(cid), cid, d)
    ELSE /\ logged' = "not_found"
         /\ UNCHANGED <<mapVars, callVars>>

\* the callback queued at line 132: Future.set_result(response_data); on a
\* Future cancelled meanwhile it raises InvalidStateError inside the event
\* loop, which logs it.
SetResult(l) ==
    /\ logged' = NoLog
    /\ scheduled[l] # Nothing
    /\ ~(l \in late /\ InCall(l))
    /\ scheduled' = [scheduled EXCEPT ![l] = Nothing]
    /\ late' = late \ {l}
    /\ IF fut[l] = "pending"
       THEN /\ fut' = [fut EXCEPT ![l] = "result"]
            /\ futValue' = [futValue EXCEPT ![l] = scheduled[l]]
       ELSE UNCHANGED <<fut, futValue>>
    /\ UNCHANGED <<taskVars, legacyWaitFor, active_connections, mapVars, hpc,
                   hsession, task_to_cancel, stored_task_loop, lpc,
                   lkind, cancelReq, lcid, sentOn, resolved, expired,
                   returned>>

\* asyncio.wait_for(future, timeout), line 102: the timeout elapses.
\* Python <= 3.11 releases the waiter and looks at the Future when the task
\* wakes up; Python >= 3.12 cancels the task, which cancels a Future that is
\* still pending, and a Future whose result is already set loses it.
TimeoutElapses(l) ==
    /\ logged' = NoLog
    /\ lpc[l] = "waiting"
    /\ ~cancelReq[l]
    /\ lpc' = [lpc EXCEPT ![l] = "timedout"]
    /\ IF legacyWaitFor
       THEN /\ fut[l] = "pending"
            /\ UNCHANGED fut
       ELSE fut' = [fut EXCEPT ![l] = IF @ = "pending" THEN "cancelled" ELSE @]
    /\ expired' = IF lcid[l] \in pending_requests THEN expired \cup {l} ELSE expired
    /\ UNCHANGED <<taskVars, legacyWaitFor, active_connections, mapVars, hpc,
                   hsession, task_to_cancel, stored_task_loop, lkind,
                   cancelReq, lcid, futValue, scheduled, late, sentOn,
                   resolved, returned>>

\* A faulty variant: the timeout runs only for a request that went out.
TimerFires_OnlyIfSent(l) ==
    /\ sentOn[l] = "sent"
    /\ TimeoutElapses(l)

\* the timer of wait_for fires
TimerFires(l) == TimeoutElapses(l)

\* lines 102-104: the Future has a result, the task wakes up and wait_for
\* returns it
ReturnResult(l) ==
    /\ logged' = NoLog
    /\ lpc[l] = "waiting"
    /\ ~cancelReq[l]
    /\ fut[l] = "result"
    /\ returned' = [returned EXCEPT ![l] = futValue[l]]
    /\ lpc' = [lpc EXCEPT ![l] = "returned"]
    /\ DropFuture(l)
    /\ UNCHANGED <<taskVars, legacyWaitFor, active_connections, mapVars, hpc,
                   hsession, task_to_cancel, stored_task_loop, lkind,
                   cancelReq, lcid, sentOn, resolved, expired>>

\* A faulty variant: the timeout branch returns None and leaves the entry.
TimeoutEvict_NoPop(l) ==
    /\ returned' = [returned EXCEPT ![l] = Timeout]
    /\ UNCHANGED <<pending_requests, owner>>

\* lines 105-110: except AsyncTimeoutError: pop the entry, return None
TimeoutEvict(l) ==
    /\ pending_requests' = pending_requests \ {lcid[l]}
    /\ owner' = [owner EXCEPT ![lcid[l]] = NoConn]
    /\ returned' = [returned EXCEPT ![l] = Timeout]

\* The task wakes up after the timeout.  Python <= 3.11: wait_for returns
\* the result of a Future that is done by now, else cancels the Future and
\* raises TimeoutError; Python >= 3.12: TimeoutError is raised.
WakeAfterTimeout(l) ==
    /\ logged' = NoLog
    /\ lpc[l] = "timedout"
    /\ ~cancelReq[l]
    /\ lpc' = [lpc EXCEPT ![l] = "returned"]
    /\ IF legacyWaitFor /\ fut[l] = "result"
       THEN /\ returned' = [returned EXCEPT ![l] = futValue[l]]
            /\ UNCHANGED <<pending_requests, owner>>
       ELSE TimeoutEvict(l)
    /\ DropFuture(l)
    /\ UNCHANGED <<taskVars, legacyWaitFor, active_connections, nextId, hpc,
                   hsession, task_to_cancel, stored_task_loop, lkind,
                   cancelReq, lcid, sentOn, resolved, expired>>

\* --------------------------------------------------------- run_task_loop
\* step 1, Observe (task_manager.py:299-306 and task_comms.py:81-140)
Observe(l) ==
    /\ logged' = NoLog
    /\ lpc[l] = "observe"
    /\ ~cancelReq[l]
    /\ BeginRequest(l, "observe")
    /\ UNCHANGED <<taskVars, legacyWaitFor, active_connections, hsession,
                   task_to_cancel, stored_task_loop, cancelReq>>

\* The loop uses the value the call returned (task_comms.py:105-140 and
\* 190-211, task_manager.py:303-306 and 516-592); the call is over.
UseResponse(l) ==
    /\ logged' = NoLog
    /\ lpc[l] = "returned"
    /\ ~cancelReq[l]
    /\ LoopAfter(l, lkind[l], returned[l])
    /\ ForgetCall(l)
    /\ UNCHANGED <<taskVars, legacyWaitFor, active_connections, mapVars, hsession, task_to_cancel, stored_task_loop,
                   cancelReq>>

\* step 2, Reason (task_manager.py:330-352): a Reasoner failure ends the task
ReasonerFails(l) ==
    /\ logged' = NoLog
    /\ lpc[l] = "reason"
    /\ ~cancelReq[l]
    /\ LoopReturns(l)
    /\ UNCHANGED <<taskVars, legacyWaitFor, active_connections, mapVars, callVars,
                   hsession, task_to_cancel,
                   stored_task_loop, lkind, cancelReq>>

\* task_manager.py:363-368 and 383-411: the decision proposes no action, or
\* the guardrail / failure memory rejects it: the step ends without a request
ReasonerNoDispatch(l) ==
    /\ logged' = NoLog
    /\ lpc[l] = "reason"
    /\ ~cancelReq[l]
    /\ StepEnd(l)
    /\ UNCHANGED <<taskVars, legacyWaitFor, active_connections, mapVars, callVars,
                   hsession, task_to_cancel,
                   stored_task_loop, lkind, cancelReq>>

\* step 3, Act (task_manager.py:414-516): a node request or an execute
\* request goes through send_request_and_wait_for_response
Act(l) ==
    /\ logged' = NoLog
    /\ lpc[l] = "reason"
    /\ ~cancelReq[l]
    /\ BeginRequest(l, "act")
    /\ UNCHANGED <<taskVars, legacyWaitFor, active_connections, hsession,
                   task_to_cancel, stored_task_loop, cancelReq>>

\* The task wakes up after Task.cancel(): CancelledError is raised at the
\* suspension point.  It is a BaseException, so neither `except Exception`
\* of run_task_loop (line 644) nor the handlers of lines 105-116 of
\* connection_manager.py catch it: the pending entry stays in the map.
\* Python <= 3.11 wait_for returns the result instead of raising when the
\* Future is already done.
DeliverCancel(l) ==
    /\ logged' = NoLog
    /\ cancelReq[l]
    /\ ~TaskDone(l)
    /\ cancelReq' = [cancelReq EXCEPT ![l] = FALSE]
    /\ IF legacyWaitFor /\ InCall(l) /\ fut[l] = "result"
       THEN /\ returned' = [returned EXCEPT ![l] = futValue[l]]
            /\ lpc' = [lpc EXCEPT ![l] = "returned"]
            /\ DropFuture(l)
            /\ UNCHANGED <<hpc, lkind, lcid, sentOn, resolved, expired>>
       ELSE /\ lpc' = [lpc EXCEPT ![l] = "cancelled"]
            /\ hpc' = WakeAwaiters(l)
            /\ ForgetCall(l)
    /\ UNCHANGED <<taskVars, legacyWaitFor, active_connections, mapVars, hsession, task_to_cancel, stored_task_loop>>

\* ------------------------------------------------- main.py: the receiver
\* _receiver, lines 193-205: a message that carries a correlation_id is
\* handed to resolve_pending_request of the one ConnectionManager
ClientResponds(h, cid, d) ==
    /\ hpc[h] = "serving"
    /\ resolve_pending_request(cid, d)
    /\ UNCHANGED <<taskVars, legacyWaitFor, active_connections, hpc, hsession,
                   task_to_cancel, stored_task_loop, lpc, lkind, cancelReq>>

\* ------------------------------------------ main.py: websocket_endpoint
\* lines 278-319: ConnectionManager.connect stores the websocket under the
\* session id (connection_manager.py:25-29), the ADK session is fetched or
\* created, the receiver task starts
connect(h, s) ==
    /\ logged' = NoLog
    /\ hpc[h] = "closed"
    /\ active_connections' = [active_connections EXCEPT ![s] = h]
    /\ hsession' = [hsession EXCEPT ![h] = s]
    /\ hpc' = [hpc EXCEPT ![h] = "serving"]
    /\ UNCHANGED <<taskVars, legacyWaitFor, mapVars, callVars, task_to_cancel,
                   stored_task_loop, lpc, lkind, cancelReq>>

\* lines 377-407: a TASK goal is ignored while the handler's own
\* current_task_loop is not done; else a task loop is created and stored in
\* session.state['current_task_loop']
StartTask(h) ==
    IF ~TaskDone(h)
    THEN UNCHANGED <<lpc, cancelReq, stored_task_loop>>
    ELSE /\ lpc' = [lpc EXCEPT ![h] = "observe"]
         /\ cancelReq' = [cancelReq EXCEPT ![h] = FALSE]
         /\ stored_task_loop' = [stored_task_loop EXCEPT ![hsession[h]] = h]

\* lines 336-407: the receiver queues classify_input (lines 206-209), the
\* handler takes it and the classifier says TASK
ClassifyInputTask(h) ==
    /\ logged' = NoLog
    /\ hpc[h] = "serving"
    /\ StartTask(h)
    /\ UNCHANGED <<taskVars, legacyWaitFor, active_connections, mapVars, callVars,
                   hpc, hsession, task_to_cancel, lkind>>

\* ConnectionManager.disconnect, connection_manager.py:31-36
disconnect(s) ==
    active_connections' = [active_connections EXCEPT ![s] = NoConn]

\* lines 497-503: drop the task reference, disconnect, cleanup complete; the
\* server closes the websocket when the endpoint returns
CleanupEnd(h) ==
    /\ stored_task_loop' = [stored_task_loop EXCEPT ![hsession[h]] = NoConn]
    /\ disconnect(hsession[h])
    /\ hpc' = [hpc EXCEPT ![h] = "finished"]
    /\ task_to_cancel' = [task_to_cancel EXCEPT ![h] = NoConn]

\* Task.cancel(): CancelledError is raised when the task next runs; with
\* Python >= 3.12 the task inside wait_for awaits the Future itself, which
\* is cancelled at once
CancelTask(t) ==
    /\ cancelReq' = [cancelReq EXCEPT ![t] = TRUE]
    /\ fut' = IF ~legacyWaitFor /\ lpc[t] = "waiting" /\ fut[t] = "pending"
              THEN [fut EXCEPT ![t] = "cancelled"]
              ELSE fut

\* lines 474-503, the cleanup: the receiver task is cancelled and awaited,
\* then the task stored in session.state['current_task_loop'] is cancelled
\* if it is not done, and awaited; without such a task the cleanup ends at
\* once.
Cleanup(h) ==
    /\ LET t == stored_task_loop[hsession[h]]
       IN  IF t # NoConn /\ ~TaskDone(t)
           THEN /\ CancelTask(t)
                /\ task_to_cancel' = [task_to_cancel EXCEPT ![h] = t]
                /\ hpc' = [hpc EXCEPT ![h] = "awaiting"]
                /\ UNCHANGED <<active_connections, stored_task_loop>>
           ELSE /\ CleanupEnd(h)
                /\ UNCHANGED <<cancelReq, fut>>
    /\ UNCHANGED <<taskVars, legacyWaitFor, mapVars, hsession, lpc, lkind, lcid,
                   futValue, scheduled, late, sentOn, resolved, expired,
                   returned>>

\* lines 206-209 and 328-330: the client sends disconnect_request
DisconnectRequest(h) ==
    /\ logged' = NoLog
    /\ hpc[h] = "serving"
    /\ Cleanup(h)

\* The client closes the connection: ws.receive_text raises
\* WebSocketDisconnect inside the inner try of _receiver, whose
\* `except Exception` (lines 247-250) queues _internal_error and ends the
\* receiver; the handler takes it (lines 331-333) and cleans up.
ClientCloses(h) ==
    /\ logged' = NoLog
    /\ hpc[h] = "serving"
    /\ Cleanup(h)

\* lines 492-503: the awaited task is done
CleanupFinish(h) ==
    /\ logged' = NoLog
    /\ hpc[h] = "task_awaited"
    /\ CleanupEnd(h)
    /\ UNCHANGED <<taskVars, legacyWaitFor, mapVars, callVars, hsession, lpc,
                   lkind, cancelReq>>

\* The session ids a connection is opened with: session ids are
\* interchangeable, so the first connection takes "s1" and the second one
\* either shares it or takes another.
SessionsOf(h) == IF h = "h1" THEN {"s1"} ELSE Sessions

\* ------------------------------------------------------------------ Next
Next ==
    \/ \E h \in Handlers : \E s \in SessionsOf(h) : connect(h, s)
    \/ \E h \in Handlers, c \in Ids, d \in Data : ClientResponds(h, c, d)
    \/ \E h \in Handlers : ClientCloses(h)
    \/ \E h \in Handlers : ClassifyInputTask(h)
    \/ \E h \in Handlers : DisconnectRequest(h)
    \/ \E h \in Handlers : CleanupFinish(h)
    \/ \E l \in Handlers : Observe(l)
    \/ \E l \in Handlers : UseResponse(l)
    \/ \E l \in Handlers : SetResult(l)
    \/ \E l \in Handlers : TimerFires(l)
    \/ \E l \in Handlers : ReturnResult(l)
    \/ \E l \in Handlers : WakeAfterTimeout(l)
    \/ \E l \in Handlers : ReasonerFails(l)
    \/ \E l \in Handlers : ReasonerNoDispatch(l)
    \/ \E l \in Handlers : Act(l)
    \/ \E l \in Handlers : DeliverCancel(l)

Spec == Init /\ [][Next]_vars

\* task_comms.py, lines 101 and 186: the expected_response_type of the
\* request for a screen capture and of the execute request
ExpectedResponseType(kind) ==
    IF kind = "observe" THEN "screenshot_result" ELSE "execution_result"

\* One connection, and the envelopes told apart by their `type`: what the
\* receiver hands to resolve_pending_request is the whole message
\* (main.py:205), its type included.
TypedNext ==
    \/ connect("h1", "s1")
    \/ \E c \in Ids, t \in Types : ClientResponds("h1", c, t)
    \/ ClientCloses("h1")
    \/ ClassifyInputTask("h1")
    \/ DisconnectRequest("h1")
    \/ CleanupFinish("h1")
    \/ Observe("h1")
    \/ UseResponse("h1")
    \/ SetResult("h1")
    \/ TimerFires("h1")
    \/ ReturnResult("h1")
    \/ WakeAfterTimeout("h1")
    \/ ReasonerFails("h1")
    \/ ReasonerNoDispatch("h1")
    \/ Act("h1")
    \/ DeliverCancel("h1")

TypedSpec == Init /\ [][TypedNext]_vars
\* ------------------------------------------------------------- fairness
\* The steps of a call that wait for nothing but the event loop: a queued
\* callback, a timer that was started, the wake-up of the task.
CallStep(l) ==
    \/ SetResult(l)
    \/ TimerFires(l)
    \/ ReturnResult(l)
    \/ WakeAfterTimeout(l)
    \/ DeliverCancel(l)

\* The event loop runs every callback and every task that is ready, and a
\* timer that was started fires.
Fairness == \A l \in Handlers : WF_vars(CallStep(l))

FairSpec == Spec /\ Fairness

\* ==================================================== run_task_loop steps
\* android_use_agent/task_manager.py, run_task_loop: one action is one pass
\* through the body of `for i in range(max_steps)` (lines 291-661) together
\* with what follows the loop when the pass leaves it (lines 663-704).  The
\* Transport's answers and the Reasoner's decision are the inputs of a step.
MaxSteps == 4       \* the max_steps argument of run_task_loop

MAX_CONSECUTIVE_ACTION_FAILURES == 3
MAX_STEPS_WITHOUT_STATE_CHANGE == 3
MAX_RECENT_FAILED_SELECTORS == 5

\* sha256 of the screenshot bytes (line 308)
Hashes == {"hA", "hB"}

\* Selector dictionaries the Reasoner can put into tap_by_selector: view_id
\* stands for the identity fields (view_id, text, content_desc), bounds for
\* the geometry.
Selectors ==
    {sel \in [view_id : {"a", "b"}, bounds : {"b1", "b2"},
              is_clickable : BOOLEAN, is_long_clickable : BOOLEAN] :
        /\ sel.view_id = "a" => ~sel.is_long_clickable
        /\ sel.view_id = "b" => (sel.bounds = "b1" /\ ~sel.is_clickable)}

Terminal == {"completed", "stuck", "failed", "failed_no_progress",
             "failed_consecutive_errors", "failed_max_steps"}

\* A faulty variant: a deque without maxlen.
DequeAppend_Unbounded(q, x) == Append(q, x)

\* collections.deque(maxlen=MAX_RECENT_FAILED_SELECTORS).append (line 248)
DequeAppend(q, x) ==
    LET r == Append(q, x)
    IN  IF Len(r) > MAX_RECENT_FAILED_SELECTORS THEN Tail(r) ELSE r

\* A faulty variant: only the newest entry is looked at.
InMemory_NewestOnly(q, sel) == Len(q) > 0 /\ q[Len(q)] = sel

\* `current_selector in failed_selectors_list` (lines 389-390): equality of
\* the selector dictionaries, every key compared
InMemory(q, sel) == \E i \in 1..Len(q) : q[i] = sel

\* A faulty variant: the guardrail lets every selector pass.
NonActionable_Never(sel) == FALSE

\* _reject_non_clickable (lines 270-288) raises ValueError
NonActionable(sel) == ~(sel.is_clickable \/ sel.is_long_clickable)

\* state['recent_failed_tap_selectors'].append(selector) (lines 405, 551)
Record(sel) ==
    /\ recent_failed_tap_selectors' =
           DequeAppend(recent_failed_tap_selectors, sel)
    /\ evicted' = IF Len(recent_failed_tap_selectors)
                       >= MAX_RECENT_FAILED_SELECTORS
                  THEN <<Head(recent_failed_tap_selectors)>> ELSE evicted

Running == implementation = "android_use_agent" /\ final_status = "unknown"

\* the keys of final_result that lines 677-682 always set
Base == {"status", "task_id", "steps_taken", "duration_seconds"}

\* nothing was returned yet
NoResult == [fields |-> {}, text |-> "none"]

\* final_status.startswith("fail") (lines 685, 698)
Failing(status) ==
    status \in {"failed", "failed_no_progress", "failed_consecutive_errors",
                "failed_max_steps"}

\* lines 683-688: whether last_res_content holds a "message" that the
\* result uses.  Only a result received from the client has a content; the
\* results the loop writes itself (lines 367, 409, 562, 568) and the failures
\* send_action_to_client synthesises (task_comms.py, lines 190-193) have
\* none.  With error_msg assigned line 686 does not look at the content.
ContentMessages(error_msg, lar) ==
    IF ~error_msg /\ lar \in {"ok", "failed"} THEN BOOLEAN ELSE {FALSE}

\* lines 677-688: final_result.  error_msg says whether the local error_msg
\* was assigned on the way out, content_message whether last_res_content
\* holds a message.
FinalResult(status, error_msg, content_message) ==
    IF Failing(status) \/ status = "stuck"
    THEN [fields |-> Base \cup {"error"},
          text |-> IF error_msg THEN "error_msg"
                   ELSE IF content_message THEN "last_result_message"
                   ELSE "default_text"]
    ELSE IF content_message
    THEN [fields |-> Base \cup {"message"}, text |-> "last_result_message"]
    ELSE [fields |-> Base, text |-> "none"]

\* lines 677-704: the result is built, the status and (for a failure) the
\* error of the result are written into state['task_state'], the session is
\* updated.  trace holds what the pass did before, ts is state['task_state']
\* as the pass left it, lar is state['last_action_result'].
Return(status, error_msg, trace, ts, lar) ==
    \E content_message \in ContentMessages(error_msg, lar) :
        LET result == FinalResult(status, error_msg, content_message)
        IN  /\ final_result' = result
            /\ task_state' =
                   [ts EXCEPT !.status = status,
                              !.error_message =
                                  IF Failing(status) THEN result.text ELSE @]
            /\ exit_trace' =
                   trace \o <<IF Failing(status) THEN "write_failure"
                              ELSE "write", "update_session">>

\* lines 204-267: a call of run_task_loop starts; the locals are fresh, the
\* keys of session.state are kept (setdefault)
\* line 245, state.setdefault('goal', goal), is part of it.
BeginLoopFor(g) ==
    /\ implementation = "android_use_agent"
    /\ final_status # "unknown"
    /\ final_status' = "unknown"
    /\ steps_taken' = 0
    /\ consecutive_action_failures' = 0
    /\ steps_without_state_change' = 0
    /\ previous_state_hash' = "None"
    /\ requested' = "nothing"
    /\ exit_trace' = <<>>
    /\ final_result' = NoResult
    /\ goal' = g
    /\ state_goal' = IF state_goal = "None" THEN g ELSE state_goal
    /\ UNCHANGED <<transportVars, legacyVars, hashVars, connection,
                   implementation, recent_failed_tap_selectors,
                   evicted, redispatched,
                   last_action_result, task_state, pre_execution>>

\* the goals a task is started with (main.py:385)
Goals == {"g1", "g2"}

\* a call of run_task_loop where every task of the session has the same goal
BeginLoop == BeginLoopFor("g1")

\* line 318: current_goal = state.get('goal', goal), the goal that line 319
\* puts into the prompt of the Reasoner
current_goal == IF state_goal # "None" THEN state_goal ELSE goal

\* the connections a session has one after the other
MaxConnections == 2

\* main.py:474-503 and 278-300: the connection of the session is closed
\* while no task loop runs, and the client connects again with the same
\* session id.  The cleanup removes state['current_task_loop'] and the
\* websocket; the ADK session stays in the session service (clear_session
\* at line 502 is commented out), and get_session at line 283 finds it, so
\* create_session with state={} is not reached.
Reconnect ==
    /\ implementation = "android_use_agent"
    /\ final_status # "unknown"
    /\ connection < MaxConnections
    /\ connection' = connection + 1
    /\ UNCHANGED <<transportVars, legacyVars, hashVars, goal, state_goal,
                   implementation, final_status, steps_taken,
                   consecutive_action_failures, steps_without_state_change,
                   previous_state_hash, recent_failed_tap_selectors,
                   evicted, redispatched, last_action_result, task_state,
                   requested, pre_execution, exit_trace, final_result>>

\* lines 224-237 and 253: a dependency, the session or the core agent is
\* missing; the call returns before the loop
EarlyExit ==
    /\ implementation = "android_use_agent"
    /\ final_status # "unknown"
    /\ final_status' = "failed"
    /\ steps_taken' = 0
    /\ consecutive_action_failures' = 0
    /\ steps_without_state_change' = 0
    /\ previous_state_hash' = "None"
    /\ requested' = "nothing"
    /\ exit_trace' = <<>>
    /\ final_result' = [fields |-> {"status", "error", "task_id", "steps_taken"},
                        text |-> "error_msg"]
    /\ \E g \in Goals, initialized \in BOOLEAN :
          /\ goal' = g
          /\ state_goal' = IF initialized /\ state_goal = "None"
                           THEN g ELSE state_goal
    /\ UNCHANGED <<transportVars, legacyVars, hashVars, connection,
                   implementation, recent_failed_tap_selectors,
                   evicted, redispatched,
                   last_action_result, task_state, pre_execution>>

\* A pass that leaves the loop by `break` before the counters are updated
\* (lines 306, 352, 563, 658).
BreakStep(status) ==
    /\ steps_taken' = steps_taken + 1
    /\ final_status' = status
    /\ UNCHANGED <<consecutive_action_failures, steps_without_state_change,
                   previous_state_hash>>

\* A faulty variant: the loop has no bound.
Exhausted_Never(steps) == FALSE

\* line 291: range(max_steps) has no further value after the pass
Exhausted(steps) == steps >= MaxSteps

\* lines 570-592 (the counters), 594-633 (the pass ends: task_state is
\* stored with status "running"), and 663-704 when the loop is left by a
\* break or because range(max_steps) is used up.  status is the final_status
\* the pass has assigned so far, success is step_success (with it,
\* any_action_succeeded_this_step is set in every branch of lines 414-556).
EndOfStep(status, success, hash) ==
    LET failures == IF success THEN 0 ELSE consecutive_action_failures + 1
        same == success /\ previous_state_hash # "None"
                        /\ hash = previous_state_hash
        unchanged == IF same THEN steps_without_state_change + 1 ELSE 0
        after == IF same /\ unchanged >= MAX_STEPS_WITHOUT_STATE_CHANGE
                    THEN "failed_no_progress"
                 ELSE IF ~success /\ failures >= MAX_CONSECUTIVE_ACTION_FAILURES
                    THEN "failed_consecutive_errors"
                 ELSE status
        final == IF after = "unknown" /\ Exhausted(steps_taken + 1)
                    THEN "failed_max_steps" ELSE after
        warned == IF status # "unknown" THEN <<"warning_update">> ELSE <<>>
        stored == [status |-> "running", last_screenshot_hash |-> hash,
                   error_message |-> "None"]
    IN  /\ steps_taken' = steps_taken + 1
        /\ consecutive_action_failures' = failures
        /\ steps_without_state_change' = unchanged
        /\ previous_state_hash' =
               IF success /\ ~same THEN hash ELSE previous_state_hash
        /\ final_status' = final
        /\ IF after \in {"failed_no_progress", "failed_consecutive_errors"}
           THEN Return(final, TRUE, warned \o <<"error_update">>, task_state,
                       last_action_result')
           ELSE IF after # "unknown"
           THEN Return(final, FALSE, warned, task_state, last_action_result')
           ELSE IF final = "failed_max_steps"
           THEN Return(final, TRUE, <<"write", "error_update">>, stored,
                       last_action_result')
           ELSE /\ task_state' = stored
                /\ exit_trace' = <<>>
                /\ final_result' = NoResult

\* lines 299-306: the screenshot request fails (timeout, no connection,
\* client error, undecodable image)
CaptureFailed ==
    /\ Running
    /\ BreakStep("failed")
    /\ requested' = "nothing"
    /\ Return("failed", TRUE, <<"error_update">>, task_state,
              last_action_result)
    /\ UNCHANGED <<transportVars, sessionVars, legacyVars, hashVars, implementation, recent_failed_tap_selectors,
                   evicted, redispatched,
                   last_action_result, pre_execution>>

\* lines 330-352: process_with_retry reports a failure or the output does
\* not validate
AgentFailed ==
    /\ Running
    /\ BreakStep("failed")
    /\ requested' = "nothing"
    /\ Return("failed", FALSE, <<"write_failure", "error_update">>,
              [status |-> "failed", last_screenshot_hash |-> "None",
               error_message |-> "exception_message"],
              last_action_result)
    /\ UNCHANGED <<transportVars, sessionVars, legacyVars, hashVars, implementation, recent_failed_tap_selectors,
                   evicted, redispatched,
                   last_action_result, pre_execution>>

\* lines 644-658: a statement of the pass outside the two inner try blocks
\* raises (lines 299-309, 355-368, 570-640)
StepException ==
    /\ Running
    /\ BreakStep("failed")
    /\ requested' = "nothing"
    /\ Return("failed", FALSE, <<"write_failure">>,
              [status |-> "failed", last_screenshot_hash |-> "None",
               error_message |-> "exception_message"],
              last_action_result)
    /\ UNCHANGED <<transportVars, sessionVars, legacyVars, hashVars, implementation, recent_failed_tap_selectors,
                   evicted, redispatched,
                   last_action_result, pre_execution>>

\* lines 363-368: the Reasoner proposes no action; its next_sub_goal says
\* "complete" or not
NoActionProposed(hash, complete) ==
    /\ Running
    /\ last_action_result' = "no_action"
    /\ requested' = "nothing"
    /\ EndOfStep(IF complete THEN "completed" ELSE "stuck", FALSE, hash)
    /\ UNCHANGED <<transportVars, sessionVars, legacyVars, hashVars, implementation, recent_failed_tap_selectors,
                   evicted, redispatched,
                   pre_execution>>

\* lines 383-411 and 505-556 for tap_by_selector: failure memory, guardrail,
\* then send_action_to_client and the recording of a failed tap
TapBySelector(hash, sel) ==
    /\ Running
    /\ IF InMemory(recent_failed_tap_selectors, sel)
       THEN /\ last_action_result' = "replan_memory"
            /\ requested' = "nothing"
            /\ UNCHANGED <<recent_failed_tap_selectors, evicted, redispatched>>
            /\ EndOfStep("unknown", FALSE, hash)
       ELSE IF NonActionable(sel)
       THEN /\ last_action_result' = "replan_guardrail"
            /\ requested' = "nothing"
            /\ Record(sel)
            /\ UNCHANGED redispatched
            /\ EndOfStep("unknown", FALSE, hash)
       ELSE /\ requested' = "sent"
            /\ redispatched' = (evicted = <<sel>>)
            /\ \E ok \in BOOLEAN :
                  /\ last_action_result' = IF ok THEN "ok" ELSE "failed"
                  /\ IF ok
                     THEN UNCHANGED <<recent_failed_tap_selectors, evicted>>
                     ELSE Record(sel)
                  /\ EndOfStep("unknown", ok, hash)
    /\ UNCHANGED <<transportVars, sessionVars, legacyVars, hashVars, implementation, pre_execution>>

\* lines 414-493 and 505-556: a node request or any other executable
\* action goes through the Transport to the client
ExecuteAction(hash, ok) ==
    /\ Running
    /\ requested' = "sent"
    /\ last_action_result' = IF ok THEN "ok" ELSE "failed"
    /\ EndOfStep("unknown", ok, hash)
    /\ UNCHANGED <<transportVars, sessionVars, legacyVars, hashVars, implementation, recent_failed_tap_selectors,
                   evicted, redispatched,
                   pre_execution>>

\* the actions on a selector besides the tap (lines 83-84)
SelectorActions == {"input_by_selector", "copy_by_selector",
                    "paste_by_selector", "select_by_selector",
                    "long_click_by_selector"}

\* lines 387-411 and 495-556 for an action of SelectorActions on the
\* selector sel: the checks of line 387 and the recording of line 547 are
\* for tap_by_selector only, so the action is sent like any other and the
\* selector leaves no trace
SelectorAction(kind, hash, sel, ok) ==
    /\ kind \in SelectorActions
    /\ ExecuteAction(hash, ok)

\* the control-flow actions that do not end the loop
ControlFlow == {"wait", "request_clarification"}

\* lines 495-556 for wait and request_clarification: neither is a node
\* request, so the `else` of line 496 sends it with send_action_to_client
ControlFlowAction(kind, hash, ok) ==
    /\ Running
    /\ kind \in ControlFlow
    /\ requested' = "sent"
    /\ last_action_result' = IF ok THEN "ok" ELSE "failed"
    /\ EndOfStep("unknown", ok, hash)
    /\ UNCHANGED <<transportVars, sessionVars, legacyVars, hashVars, implementation, recent_failed_tap_selectors,
                   evicted, redispatched,
                   pre_execution>>

\* lines 495-556 for an action_name that is not in EXPECTED_ACTION_KEYS
\* (lines 81-96, used nowhere; CoreAgentOutput accepts such a name when it
\* comes without parameters, models.py lines 152-156)
UnrecognizedAction(hash, ok) ==
    /\ Running
    /\ requested' = "sent"
    /\ last_action_result' = IF ok THEN "ok" ELSE "failed"
    /\ EndOfStep("unknown", ok, hash)
    /\ UNCHANGED <<transportVars, sessionVars, legacyVars, hashVars, implementation, recent_failed_tap_selectors,
                   evicted, redispatched,
                   pre_execution>>

\* the direction parameter of swipe_semantic; line 528 accepts up, down, left
\* and right
Directions == {"up", "down", "None"}
ValidDirections == {"up", "down"}

\* what the client answers to swipe_semantic: success, a failure whose message
\* contains "unsupported action" (line 525), any other failure or no answer
SwipeAnswers == {"ok", "unsupported", "failed"}

\* line 533: the request for action_type "swipe" with {"direction": ...}
RawSwipe(direction) == IF direction = "up" THEN "swipe_up" ELSE "swipe_down"

\* A faulty variant: every failure of swipe_semantic is retried.
SwipeRetried_AnyFailure(direction, answer) ==
    answer # "ok" /\ direction \in ValidDirections

\* lines 525-528: the fallback request is sent
SwipeRetried(direction, answer) ==
    answer = "unsupported" /\ direction \in ValidDirections

\* lines 508-556 for swipe_semantic, with the fallback of lines 524-541;
\* retry_ok is the client's answer to the fallback request
SwipeSemantic(hash, direction, answer, retry_ok) ==
    LET retried == SwipeRetried(direction, answer)
        ok == IF retried THEN retry_ok ELSE answer = "ok"
    IN  /\ Running
        /\ requested' = IF retried THEN RawSwipe(direction) ELSE "sent"
        /\ last_action_result' = IF ok THEN "ok" ELSE "failed"
        /\ EndOfStep("unknown", ok, hash)
        /\ UNCHANGED <<transportVars, sessionVars, legacyVars, hashVars, implementation,
                       recent_failed_tap_selectors, evicted, redispatched, pre_execution>>

\* lines 565-568: a statement of the action processing raises, before or
\* after the request was sent; the pass goes on to the counters
ActionProcessingError(hash, sent) ==
    /\ Running
    /\ requested' = IF sent THEN "sent" ELSE "nothing"
    /\ last_action_result' = "error_processing"
    /\ EndOfStep("unknown", FALSE, hash)
    /\ UNCHANGED <<transportVars, sessionVars, legacyVars, hashVars, implementation, recent_failed_tap_selectors,
                   evicted, redispatched,
                   pre_execution>>

\* lines 505-563: the action `done` is sent to the client and ends the loop;
\* success is the success flag of the decision (DoneParams), ok the client's
\* answer.  Line 562 replaces last_action_result by the decision's message.
DoneAction(success, ok) ==
    /\ Running
    /\ requested' = "sent"
    /\ last_action_result' = "done"
    /\ BreakStep(IF ok THEN "completed" ELSE "failed")
    /\ Return(IF ok THEN "completed" ELSE "failed", FALSE, <<>>, task_state,
              "done")
    /\ UNCHANGED <<transportVars, sessionVars, legacyVars, hashVars, implementation, recent_failed_tap_selectors,
                   evicted, redispatched,
                   pre_execution>>

\* ------------------------------------------- task_manager.py (legacy loop)
\* _selector_hash (lines 64-77): sha1 over the identity fields only
selector_hash(sel) == <<sel.view_id>>

\* _validate_clickable (lines 81-89) raises ValueError
validate_clickable(sel) == ~(sel.is_clickable \/ sel.is_long_clickable)

\* lines 352-374: the checks before execution; a ValueError skips the rest
\* of the step, nothing is sent
PreExecutionCheck(sel, failed_hashes) ==
    IF validate_clickable(sel) THEN "blocked"
    ELSE IF selector_hash(sel) \in failed_hashes THEN "blocked"
    ELSE "proceed"

LegacyTapBySelector(sel, failed_hashes) ==
    /\ implementation = "legacy"
    /\ pre_execution' = PreExecutionCheck(sel, failed_hashes)
    /\ UNCHANGED <<transportVars, sessionVars, legacyVars, hashVars, implementation, final_status, steps_taken,
                   consecutive_action_failures, steps_without_state_change,
                   previous_state_hash, recent_failed_tap_selectors, evicted, redispatched,
                   last_action_result, task_state, requested, exit_trace,
                   final_result>>

\* task_manager.py, lines 32-35
MAX_STEPS == 20
MAX_CONSECUTIVE_FAILURES == 3
NO_STATE_CHANGE_LIMIT == 5
WAIT_DEFAULT_SECONDS == 3

\* Nodes of a node query, reduced to the fields _calculate_state_hash sorts
\* by (view_id, bounds.top, bounds.left) and one field it does not sort by.
Nodes == [view_id : {"a", "b"}, top : {0, 1}, left : {0}, text : {"x", "y"}]

\* the order of Python on the strings used as view ids
Rank(view_id) == IF view_id = "a" THEN 1 ELSE 2

\* the sort key of lines 50-54 and the order of Python on such tuples
KeyLess(x, y) ==
    \/ Rank(x.view_id) < Rank(y.view_id)
    \/ /\ x.view_id = y.view_id
       /\ \/ x.top < y.top
          \/ x.top = y.top /\ x.left < y.left

\* sorted() is stable: a node goes behind the nodes whose key is not greater
\* than its own, so nodes of equal key keep the order of the list
InsertNode(sorted, x) ==
    LET n == Cardinality({i \in 1..Len(sorted) : ~KeyLess(x, sorted[i])})
    IN  SubSeq(sorted, 1, n) \o <<x>> \o SubSeq(sorted, n + 1, Len(sorted))

RECURSIVE SortedNodes(_)
\* sorted(..., key=...) of lines 48-55
SortedNodes(nodes) ==
    IF nodes = <<>> THEN <<>>
    ELSE InsertNode(SortedNodes(SubSeq(nodes, 1, Len(nodes) - 1)),
                    nodes[Len(nodes)])

\* _calculate_state_hash (lines 38-61): sha256 over the screenshot bytes and,
\* for a list that is neither None nor empty, over the JSON text of the
\* sorted list.  The hash and the JSON text stand for themselves: the pair
\* of the screenshot and the sorted list (json.dumps keeps the order of a
\* list, and sort_keys orders the keys inside a node).
calculate_state_hash(screenshot_bytes, nodes) ==
    <<screenshot_bytes, SortedNodes(nodes)>>

\* the reorderings of a list
Reorderings(q) ==
    {[i \in 1..Len(q) |-> q[f[i]]] :
        f \in {g \in [1..Len(q) -> 1..Len(q)] :
                  \A i, j \in 1..Len(q) : i # j => g[i] # g[j]}}

\* the longest node list hashed
MaxNodes == 2

NodeLists == UNION {[1..n -> Nodes] : n \in 0..MaxNodes}

\* a call of _calculate_state_hash
CalculateStateHash(screenshot_bytes, nodes) ==
    /\ hashed_nodes' = nodes
    /\ state_hash' = calculate_state_hash(screenshot_bytes, nodes)
    /\ UNCHANGED <<transportVars, sessionVars, legacyVars, implementation,
                   final_status, steps_taken, consecutive_action_failures,
                   steps_without_state_change, previous_state_hash,
                   recent_failed_tap_selectors, evicted, redispatched,
                   last_action_result, task_state, requested, pre_execution,
                   exit_trace, final_result>>

HashNext ==
    \E screenshot_bytes \in Hashes, nodes \in NodeLists :
        CalculateStateHash(screenshot_bytes, nodes)

LegacyRunning == implementation = "legacy" /\ final_status = "unknown"

\* lines 93-144: a call of the legacy run_task_loop starts; the locals are
\* fresh, the keys of the session state are kept (setdefault, lines 122-127)
LegacyBegin ==
    /\ implementation = "legacy"
    /\ final_status # "unknown"
    /\ final_status' = "unknown"
    /\ steps_taken' = 0
    /\ consecutive_action_failures' = 0
    /\ steps_without_state_change' = 0
    /\ last_state_hash' = <<>>
    /\ last_action_result' =
           IF last_action_result = "None" THEN "ok" ELSE last_action_result
    /\ requested' = "nothing"
    /\ appended' = FALSE
    /\ slept' = 0
    /\ pre_execution' = "none"
    /\ exit_trace' = <<>>
    /\ final_result' = NoResult
    /\ UNCHANGED <<transportVars, sessionVars, hashVars, implementation,
                   previous_state_hash, recent_failed_tap_selectors, evicted,
                   redispatched, task_state, history_last,
                   failed_tap_hashes>>

\* what no step of the legacy loop touches
LegacyFrame ==
    UNCHANGED <<transportVars, sessionVars, hashVars, implementation,
                previous_state_hash, recent_failed_tap_selectors, evicted,
                redispatched, task_state>>

\* a `return` of the legacy loop with its notifications
LegacyReturn(status, fields, text, trace) ==
    /\ final_status' = status
    /\ final_result' = [fields |-> fields, text |-> text]
    /\ exit_trace' = exit_trace \o trace

\* `while steps_taken < MAX_STEPS` (line 148) after a `continue` or after
\* the end of the step; lines 517-523 when the loop is used up
LegacyGoOn ==
    IF steps_taken + 1 >= MAX_STEPS
    THEN LegacyReturn("max_steps_reached", {"status", "task_id", "message"},
                      "max_steps_message", <<>>)
    ELSE UNCHANGED <<final_status, exit_trace, final_result>>

\* a failure that is counted and checked at once (lines 172-177, 329-334)
LegacyCounted ==
    /\ consecutive_action_failures' = consecutive_action_failures + 1
    /\ IF consecutive_action_failures + 1 >= MAX_CONSECUTIVE_FAILURES
       THEN LegacyReturn("failed_max_failures", Base, "none",
                         <<"warning_update", "error_update">>)
       ELSE LegacyGoOn

\* a pass that appends nothing to state["history"], sends no action, does
\* not sleep and does not come to the checks before execution
LegacySkipped ==
    /\ requested' = "nothing"
    /\ appended' = FALSE
    /\ slept' = 0
    /\ pre_execution' = "none"
    /\ UNCHANGED <<history_last, failed_tap_hashes>>

\* lines 166-177: the screenshot request fails
LegacyCaptureFailed ==
    /\ LegacyRunning
    /\ steps_taken' = steps_taken + 1
    /\ LegacyCounted
    /\ LegacySkipped
    /\ UNCHANGED <<steps_without_state_change, last_state_hash,
                   last_action_result>>
    /\ LegacyFrame

\* line 198: the hash of the screenshot alone (line 196) against
\* last_state_hash
SameState(capture) == last_state_hash = calculate_state_hash(capture, <<>>)

\* lines 198-204: the count reaches NO_STATE_CHANGE_LIMIT
Stuck(capture) ==
    SameState(capture)
        /\ steps_without_state_change + 1 >= NO_STATE_CHANGE_LIMIT

\* lines 195-204: the task is stuck
LegacyStuck(capture) ==
    /\ LegacyRunning
    /\ Stuck(capture)
    /\ steps_taken' = steps_taken + 1
    /\ steps_without_state_change' = steps_without_state_change + 1
    /\ LegacyReturn("failed_stuck", Base, "none", <<"error_update">>)
    /\ LegacySkipped
    /\ UNCHANGED <<consecutive_action_failures, last_state_hash,
                   last_action_result>>
    /\ LegacyFrame

\* lines 258-263: the nodes of the last entry of state["history"] when it
\* was a successful node request; None and [] hash alike (line 43)
last_nodes ==
    IF history_last.node_request /\ history_last.success
    THEN history_last.nodes ELSE <<>>

\* lines 148-309: the pass up to the call of the Reasoner: the screenshot
\* (capture stands for its bytes), the count of lines 198-206 and the
\* last_state_hash of lines 308-309
LegacyObserved(capture) ==
    /\ LegacyRunning
    /\ ~Stuck(capture)
    /\ steps_taken' = steps_taken + 1
    /\ steps_without_state_change' =
           IF SameState(capture) THEN steps_without_state_change + 1 ELSE 0

\* lines 323-334: the Reasoner fails
LegacyAgentFailed(capture) ==
    /\ LegacyObserved(capture)
    /\ last_state_hash' = calculate_state_hash(capture, last_nodes)
    /\ LegacyCounted
    /\ LegacySkipped
    /\ UNCHANGED last_action_result
    /\ LegacyFrame

\* lines 336-344: the output of the Reasoner does not validate; the failure
\* is counted and the pass ends with `continue`, without the check of the
\* count
LegacyOutputInvalid(capture) ==
    /\ LegacyObserved(capture)
    /\ last_state_hash' = calculate_state_hash(capture, last_nodes)
    /\ consecutive_action_failures' = consecutive_action_failures + 1
    /\ LegacyGoOn
    /\ LegacySkipped
    /\ UNCHANGED last_action_result
    /\ LegacyFrame

\* lines 508-515 (`except Exception` of the step): the error notification
\* and the return of failed_exception with str(e) as error
LegacyException ==
    /\ final_status' = "failed_exception"
    /\ exit_trace' = exit_trace \o <<"error_update">>
    /\ final_result' = [fields |-> Base \cup {"error"},
                        text |-> "exception_message"]
    /\ UNCHANGED consecutive_action_failures

\* lines 476-494: the step ends: its result and its entry of
\* state["history"] are stored; consecutive_failures (kept in
\* consecutive_action_failures) decides whether the loop goes on
LegacyStepEnd(failures, entry) ==
    /\ consecutive_action_failures' = failures
    /\ last_action_result' = IF entry.success THEN "ok" ELSE "failed"
    /\ history_last' = entry
    /\ appended' = TRUE
    /\ IF failures >= MAX_CONSECUTIVE_FAILURES
       THEN LegacyReturn("failed_max_failures", Base, "none",
                         <<"error_update">>)
       ELSE LegacyGoOn

\* an entry of state["history"] for an action that is no node request
ActionEntry(success) ==
    [node_request |-> FALSE, success |-> success, nodes |-> <<>>]

\* the count after an executed action (lines 421-427)
AfterAction(ok) == IF ok THEN 0 ELSE consecutive_action_failures + 1

\* lines 352-374 and 401-438 for tap_by_selector: the checks before the
\* execution end the pass with `continue` (line 374), so neither the count
\* nor state["history"] changes; a tap that passes is sent, and its
\* selector hash is recorded when the client reports failure (the deque of
\* maxlen 20 holds each hash once and never fills with the hashes here)
LegacyTap(capture, sel, ok) ==
    /\ LegacyObserved(capture)
    /\ last_state_hash' = calculate_state_hash(capture, last_nodes)
    /\ pre_execution' = PreExecutionCheck(sel, failed_tap_hashes)
    /\ slept' = 0
    /\ IF PreExecutionCheck(sel, failed_tap_hashes) = "blocked"
       THEN /\ requested' = "nothing"
            /\ last_action_result' = "blocked"
            /\ appended' = FALSE
            /\ LegacyGoOn
            /\ UNCHANGED <<consecutive_action_failures, history_last,
                           failed_tap_hashes>>
       ELSE /\ requested' = "sent"
            /\ failed_tap_hashes' =
                   IF ok THEN failed_tap_hashes
                   ELSE failed_tap_hashes \cup {selector_hash(sel)}
            /\ LegacyStepEnd(AfterAction(ok), ActionEntry(ok))
    /\ LegacyFrame

\* the node lists a node request returns
FoundNodes ==
    {<<>>, <<[view_id |-> "a", top |-> 0, left |-> 0, text |-> "x"]>>}

\* lines 378-399: a node request; with its success last_state_hash becomes
\* the hash of the screenshot and the nodes (lines 394-395) and the count of
\* failures is reset, its failure is not counted
LegacyNodeRequest(capture, nodes, ok) ==
    /\ LegacyObserved(capture)
    /\ last_state_hash' =
           IF ok THEN calculate_state_hash(capture, nodes)
           ELSE calculate_state_hash(capture, last_nodes)
    /\ requested' = "sent"
    /\ slept' = 0
    /\ LegacyStepEnd(IF ok THEN 0 ELSE consecutive_action_failures,
                     [node_request |-> TRUE, success |-> ok,
                      nodes |-> IF ok THEN nodes ELSE <<>>])
    /\ pre_execution' = "none"
    /\ UNCHANGED failed_tap_hashes
    /\ LegacyFrame

\* lines 401-427: an executable action that is neither a tap nor a long
\* click
LegacyExecute(capture, ok) ==
    /\ LegacyObserved(capture)
    /\ last_state_hash' = calculate_state_hash(capture, last_nodes)
    /\ requested' = "sent"
    /\ slept' = 0
    /\ LegacyStepEnd(AfterAction(ok), ActionEntry(ok))
    /\ pre_execution' = "none"
    /\ UNCHANGED failed_tap_hashes
    /\ LegacyFrame

\* lines 401-436 for long_click_by_selector: the ValueError of the guardrail
\* (line 413) is raised inside the `try` of the step, whose handlers are
\* those of lines 508-515
LegacyLongClickBySelector(sel, ok) ==
    /\ \E capture \in Hashes :
          /\ LegacyObserved(capture)
          /\ last_state_hash' = calculate_state_hash(capture, last_nodes)
    /\ slept' = 0
    /\ IF ~sel.is_long_clickable
       THEN /\ requested' = "nothing"
            /\ appended' = FALSE
            /\ LegacyException
            /\ UNCHANGED <<history_last, last_action_result>>
       ELSE /\ requested' = "sent"
            /\ LegacyStepEnd(AfterAction(ok), ActionEntry(ok))
    /\ pre_execution' = "none"
    /\ UNCHANGED failed_tap_hashes
    /\ LegacyFrame

\* the action_params of a wait decision: <<>> without duration_seconds,
\* else <<duration_seconds>>
WaitParams == {<<>>} \cup {<<d>> : d \in {-1, 0, 1, 5, 10, 11}}

\* A faulty variant: the duration is bounded from above only.
wait_seconds_NoLowerBound(action_params) ==
    LET d == IF action_params = <<>> THEN WAIT_DEFAULT_SECONDS
             ELSE action_params[1]
    IN  IF d < 10 THEN d ELSE 10

\* lines 441-442: action_params.get("duration_seconds",
\* WAIT_DEFAULT_SECONDS), then max(1, min(int(wait_seconds), 10))
wait_seconds(action_params) ==
    LET d == IF action_params = <<>> THEN WAIT_DEFAULT_SECONDS
             ELSE action_params[1]
        least == IF d < 10 THEN d ELSE 10
    IN  IF least > 1 THEN least ELSE 1

\* lines 440-447: wait sleeps in the server, nothing is sent
LegacyWait(capture, action_params) ==
    /\ LegacyObserved(capture)
    /\ last_state_hash' = calculate_state_hash(capture, last_nodes)
    /\ requested' = "nothing"
    /\ slept' = wait_seconds(action_params)
    /\ LegacyStepEnd(0, ActionEntry(TRUE))
    /\ pre_execution' = "none"
    /\ UNCHANGED failed_tap_hashes
    /\ LegacyFrame

\* lines 449-453: done returns completed with the message of the decision
LegacyDone(capture) ==
    /\ LegacyObserved(capture)
    /\ last_state_hash' = calculate_state_hash(capture, last_nodes)
    /\ LegacyReturn("completed", Base \cup {"message"}, "decision_message",
                    <<>>)
    /\ LegacySkipped
    /\ UNCHANGED <<consecutive_action_failures, last_action_result>>
    /\ LegacyFrame

\* lines 455-468 for request_clarification.  RequestClarificationParams
\* (android_use_agent/models.py, lines 72-73) has the one field question:
\* with valid parameters line 458 reads clarification_params.options and
\* raises AttributeError, which is no ValidationError and reaches the
\* `except Exception` of the step; invalid parameters are a failed step.
LegacyRequestClarification(valid) ==
    /\ \E capture \in Hashes :
          /\ LegacyObserved(capture)
          /\ last_state_hash' = calculate_state_hash(capture, last_nodes)
    /\ requested' = "nothing"
    /\ slept' = 0
    /\ IF valid
       THEN /\ appended' = FALSE
            /\ LegacyException
            /\ UNCHANGED <<history_last, last_action_result>>
       ELSE LegacyStepEnd(consecutive_action_failures + 1, ActionEntry(FALSE))
    /\ pre_execution' = "none"
    /\ UNCHANGED failed_tap_hashes
    /\ LegacyFrame

\* lines 470-473: an action name the loop does not know is a failed step
LegacyUnknownAction(capture) ==
    /\ LegacyObserved(capture)
    /\ last_state_hash' = calculate_state_hash(capture, last_nodes)
    /\ requested' = "nothing"
    /\ slept' = 0
    /\ LegacyStepEnd(consecutive_action_failures + 1, ActionEntry(FALSE))
    /\ pre_execution' = "none"
    /\ UNCHANGED failed_tap_hashes
    /\ LegacyFrame

TaskInit ==
    /\ TransportInit
    /\ ~legacyWaitFor
    /\ implementation \in {"android_use_agent", "legacy"}
    /\ final_status = "idle"
    /\ steps_taken = 0
    /\ consecutive_action_failures = 0
    /\ steps_without_state_change = 0
    /\ previous_state_hash = "None"
    /\ recent_failed_tap_selectors = <<>>
    /\ evicted = <<>>
    /\ redispatched = FALSE
    /\ FreshSession
    /\ last_action_result = "None"
    /\ task_state = [status |-> "absent", last_screenshot_hash |-> "None",
                     error_message |-> "None"]
    /\ requested = "nothing"
    /\ pre_execution = "none"
    /\ exit_trace = <<>>
    /\ final_result = [fields |-> {}, text |-> "none"]

\* The taps and what surrounds them: the exits of a step, the failure
\* memory with every selector, the check of the legacy loop.
TaskNext ==
    \/ BeginLoop
    \/ CaptureFailed
    \/ AgentFailed
    \/ \E hash \in Hashes, complete \in BOOLEAN : NoActionProposed(hash, complete)
    \/ \E hash \in Hashes, sel \in Selectors : TapBySelector(hash, sel)
    \/ \E hash \in Hashes, ok \in BOOLEAN : ExecuteAction(hash, ok)
    \/ \E success, ok \in BOOLEAN : DoneAction(success, ok)
    \/ \E sel \in Selectors, hs \in SUBSET {selector_hash(x) : x \in Selectors} :
          LegacyTapBySelector(sel, hs)

TaskSpec == TaskInit /\ [][TaskNext]_vars

\* the two tap targets of LoopSpec: one without capability flag, one
\* long-clickable
TapTargets == {sel \in Selectors : sel.view_id = "b"}

\* Every kind of decision and every exit of run_task_loop; the taps go to
\* the two selectors of TapTargets, which keeps the failure memory small.
LoopNext ==
    \/ \E g \in Goals : BeginLoopFor(g)
    \/ EarlyExit
    \/ Reconnect
    \/ CaptureFailed
    \/ AgentFailed
    \/ StepException
    \/ \E hash \in Hashes, complete \in BOOLEAN : NoActionProposed(hash, complete)
    \/ \E hash \in Hashes, sel \in TapTargets : TapBySelector(hash, sel)
    \/ \E hash \in Hashes, ok \in BOOLEAN : ExecuteAction(hash, ok)
    \/ \E kind \in {"input_by_selector", "long_click_by_selector"},
          hash \in Hashes, sel \in TapTargets, ok \in BOOLEAN :
          SelectorAction(kind, hash, sel, ok)
    \/ \E kind \in ControlFlow, hash \in Hashes, ok \in BOOLEAN :
          ControlFlowAction(kind, hash, ok)
    \/ \E hash \in Hashes, ok \in BOOLEAN : UnrecognizedAction(hash, ok)
    \/ \E hash \in Hashes, direction \in Directions, answer \in SwipeAnswers,
          retry_ok \in BOOLEAN :
          SwipeSemantic(hash, direction, answer, retry_ok)
    \/ \E hash \in Hashes, sent \in BOOLEAN : ActionProcessingError(hash, sent)
    \/ \E success, ok \in BOOLEAN : DoneAction(success, ok)

LoopSpec == TaskInit /\ [][LoopNext]_vars

\* the selectors of LegacySpec: every combination of view id and capability
\* flags, at one geometry
LegacyTargets == {sel \in Selectors : sel.bounds = "b1"}

\* The legacy loop (task_manager.py) with every kind of decision.
LegacyNext ==
    \/ LegacyBegin
    \/ LegacyCaptureFailed
    \/ \E capture \in Hashes : LegacyStuck(capture)
    \/ \E capture \in Hashes : LegacyAgentFailed(capture)
    \/ \E capture \in Hashes : LegacyOutputInvalid(capture)
    \/ \E capture \in Hashes, sel \in LegacyTargets, ok \in BOOLEAN :
          LegacyTap(capture, sel, ok)
    \/ \E capture \in Hashes, nodes \in FoundNodes, ok \in BOOLEAN :
          LegacyNodeRequest(capture, nodes, ok)
    \/ \E capture \in Hashes, ok \in BOOLEAN : LegacyExecute(capture, ok)
    \/ \E sel \in LegacyTargets, ok \in BOOLEAN :
          LegacyLongClickBySelector(sel, ok)
    \/ \E capture \in Hashes, action_params \in WaitParams :
          LegacyWait(capture, action_params)
    \/ \E capture \in Hashes : LegacyDone(capture)
    \/ \E valid \in BOOLEAN : LegacyRequestClarification(valid)
    \/ \E capture \in Hashes : LegacyUnknownAction(capture)

LegacySpec == TaskInit /\ [][LegacyNext]_vars

\* _calculate_state_hash applied to every screenshot and every node list
HashSpec == TaskInit /\ [][HashNext]_vars

\* one pass of the loop of android_use_agent/task_manager.py
LoopStep ==
    \/ CaptureFailed
    \/ AgentFailed
    \/ StepException
    \/ \E hash \in Hashes, complete \in BOOLEAN : NoActionProposed(hash, complete)
    \/ \E hash \in Hashes, sel \in TapTargets : TapBySelector(hash, sel)
    \/ \E hash \in Hashes, ok \in BOOLEAN : ExecuteAction(hash, ok)
    \/ \E hash \in Hashes, sent \in BOOLEAN : ActionProcessingError(hash, sent)
    \/ \E success, ok \in BOOLEAN : DoneAction(success, ok)

\* Every await of a pass returns: send_request_and_wait_for_response by the
\* response or by its timeout, the Reasoner by its answer or its failure.
\* So a pass that has begun ends.
FairLoopSpec == LoopSpec /\ WF_vars(LoopStep)

\* ---------------------------------------------------------------- claims
\* everything but the log line
stateVars == <<legacyWaitFor, active_connections, mapVars, callVars, hpc,
               hsession, task_to_cancel, stored_task_loop, lpc, lkind,
               cancelReq>>

\* the call of loop l has returned a value to the loop
HasReturned(l) == lpc[l] = "returned"

\* C1: a response that resolve_pending_request took out of the map while the
\* call had not returned is the value the call returns; it is never replaced
\* by the timeout failure.
ResolvedResponseIsReturned ==
    \A l \in Handlers :
        (HasReturned(l) /\ resolved[l] # Nothing) => returned[l] = resolved[l]

\* C2: when the cleanup of a websocket handler finishes, the map of pending
\* requests holds no entry that a call of the handler's session registered.
CleanupEvictsPendingRequests ==
    [][\A h \in Handlers :
          (hpc[h] # "finished" /\ hpc'[h] = "finished")
              => \A c \in pending_requests' : owner'[c] # hsession[h]]_vars

\* C3: when send_request_and_wait_for_response has returned, with a response
\* or after its timeout, the map holds no entry for the id the call
\* registered.
ReturnedCallLeavesNoEntry ==
    \A l \in Handlers :
        (HasReturned(l) /\ lcid[l] # 0) => lcid[l] \notin pending_requests

ReturnedBothWays ==
    \E a, b \in Handlers :
        /\ HasReturned(a) /\ returned[a] = Msg(lcid[a], "data")
        /\ HasReturned(b) /\ returned[b] = Timeout /\ lcid[b] # 0

\* C4: with two calls outstanding on one session's connection, a call that
\* returns a response returns the payload that was resolved under its own
\* correlation id, and resolving one id leaves the call, the Future and the
\* map entry of every other call as they were.
OwnPayload ==
    \A l \in Handlers :
        (HasReturned(l) /\ returned[l] \notin Failures)
            => (returned[l] = resolved[l] /\ returned[l][1] = lcid[l])
ResolveLeavesOtherCalls ==
    \A h \in Handlers, c \in Ids, d \in Data :
        ClientResponds(h, c, d) =>
            \A m \in Handlers :
                lcid[m] # c =>
                    /\ lpc'[m] = lpc[m]
                    /\ fut'[m] = fut[m]
                    /\ futValue'[m] = futValue[m]
                    /\ scheduled'[m] = scheduled[m]
                    /\ resolved'[m] = resolved[m]
                    /\ returned'[m] = returned[m]
                    /\ (lcid[m] \in pending_requests'
                            <=> lcid[m] \in pending_requests)
ConcurrentCallsIndependent ==
    /\ []OwnPayload
    /\ [][ResolveLeavesOtherCalls]_vars

LaterCallResolvedFirst ==
    \E a, b \in Handlers :
        /\ a # b /\ hsession[a] = hsession[b]
        /\ lcid[a] # 0 /\ lcid[a] < lcid[b]
        /\ HasReturned(b) /\ returned[b] = Msg(lcid[b], "data")
        /\ lpc[a] = "waiting" /\ fut[a] = "pending"
        /\ lcid[a] \in pending_requests

\* C5: resolve_pending_request with an id that is not in the map (unknown,
\* already resolved, already timed out) changes nothing but the log: the map
\* and every call are as before.
AbsentIdResolveChangesNothing ==
    [][\A h \in Handlers, c \in Ids, d \in Data :
          (c \notin pending_requests /\ ClientResponds(h, c, d))
              => UNCHANGED stateVars]_vars

AbsentIdResolvedDuringCall ==
    /\ logged = "not_found"
    /\ \E l \in Handlers : InCall(l) /\ lcid[l] \in pending_requests

\* C6: a call whose timeout elapsed while its entry was still in the map
\* returns the failure sentinel with the entry removed, and a response for
\* its id that arrives after that is logged as not found and changes neither
\* the map nor any call.
TimedOutCallFails ==
    \A l \in Handlers :
        (l \in expired /\ HasReturned(l))
            => (returned[l] = Timeout /\ lcid[l] \notin pending_requests)
LateResponseDiscarded ==
    \A h \in Handlers, c \in Ids, d \in Data :
        (/\ ClientResponds(h, c, d)
         /\ \E l \in Handlers : lcid[l] = c /\ l \in expired /\ HasReturned(l))
            => (logged' = "not_found" /\ UNCHANGED stateVars)
TimeoutThenLateResponse ==
    /\ []TimedOutCallFails
    /\ [][LateResponseDiscarded]_vars

\* every id but that of the timed-out call is in the map with its call
\* outstanding, so the response that was not found carried that id
LateResponseArrived ==
    \E l \in Handlers :
        /\ l \in expired /\ HasReturned(l) /\ returned[l] = Timeout
        /\ logged = "not_found"
        /\ nextId > MaxId
        /\ \A c \in Ids \ {lcid[l]} : c \in pending_requests /\ CallOf(c) # {}

\* C7: a request for a session without a registered websocket returns the
\* failure sentinel in the same step: no id is issued, no entry and no
\* Future are created, nothing is sent, and the call does not wait.
NoConnectionFailsAtOnce ==
    [][\A l \in Handlers :
          ((Observe(l) \/ Act(l)) /\ active_connections[hsession[l]] = NoConn)
              => /\ UNCHANGED <<mapVars, lcid, fut, sentOn>>
                 /\ lpc'[l] = "returned"
                 /\ returned'[l] = NoConnection]_vars

FailedWithoutConnection ==
    \E l \in Handlers :
        /\ HasReturned(l) /\ returned[l] = NoConnection
        /\ lcid[l] = 0 /\ sentOn[l] = NoConn
        /\ pending_requests = {}

\* C8: every call eventually returns or is left by the cancellation of its
\* task, whatever the calls of the other session do; a call whose id no
\* resolve took out of the map, its request sent or not, returns the failure
\* sentinel.
UnresolvedCallFails ==
    \A l \in Handlers :
        (HasReturned(l) /\ lcid[l] # 0 /\ resolved[l] = Nothing)
            => returned[l] = Timeout
NoLoopSurvivesCleanup ==
    [][\A h \in Handlers :
          (hpc[h] # "finished" /\ hpc'[h] = "finished")
              => \A l \in Handlers :
                    (hpc[l] # "closed" /\ hsession[l] = hsession[h])
                        => lpc'[l] \in {"none", "ended", "cancelled"}]_vars

\* C10: at most one task loop is active for a session id.
OneLoopPerSession ==
    \A a, b \in Handlers :
        (a # b /\ ~TaskDone(a) /\ ~TaskDone(b)) => hsession[a] # hsession[b]

\* ------------------------------------------ claims about run_task_loop
\* C11: the terminal status a step assigns is the one returned and
\* persisted: when the Reasoner proposes no action the call returns completed
\* (the sub-goal says complete) or stuck and state['task_state'] holds that
\* status; a returned status is replaced only by the next call of
\* run_task_loop, and a terminal status in state['task_state'] does not
\* become running while no new call has started.
AssignedStatusIsReturned ==
    \A hash \in Hashes, complete \in BOOLEAN :
        NoActionProposed(hash, complete) =>
            /\ final_status' = IF complete THEN "completed" ELSE "stuck"
            /\ task_state'.status = final_status'
TerminalStatusStays ==
    /\ (final_status \in Terminal /\ ~BeginLoop)
           => final_status' = final_status
    /\ (final_status \in Terminal /\ task_state.status \in Terminal)
           => task_state'.status # "running"
StatusIsMonotonic == [][AssignedStatusIsReturned /\ TerminalStatusStays]_vars

\* a step that failed: the capture, the Reasoner, a rejected tap or a
\* dispatch whose result is not a success
FailedStep ==
    \/ CaptureFailed
    \/ AgentFailed
    \/ \E success \in BOOLEAN : DoneAction(success, FALSE)
    \/ \E hash \in Hashes : ExecuteAction(hash, FALSE)
    \/ \E hash \in Hashes, sel \in Selectors :
          TapBySelector(hash, sel) /\ last_action_result' # "ok"
    \/ StepException
    \/ \E hash \in Hashes, sent \in BOOLEAN : ActionProcessingError(hash, sent)
    \/ \E hash \in Hashes, direction \in Directions, answer \in SwipeAnswers :
          SwipeSemantic(hash, direction, answer, FALSE)
              /\ last_action_result' = "failed"

\* a step whose dispatch succeeded and that does not end the task by itself
SuccessfulStep ==
    \/ \E hash \in Hashes : ExecuteAction(hash, TRUE)
    \/ \E hash \in Hashes, sel \in Selectors :
          TapBySelector(hash, sel) /\ last_action_result' = "ok"
    \/ \E hash \in Hashes, direction \in ValidDirections :
          SwipeSemantic(hash, direction, "unsupported", TRUE)

\* C12: the K-th failed step in a row ends the task with
\* failed_consecutive_errors, a failed step before the K-th does not, and a
\* successful step sets the consecutive-failure counter to 0.
\* (While the loop runs consecutive_action_failures is the number of failed
\* steps since the last successful one: every earlier failed step that did
\* not end the task was counted.)
KthFailureEndsTask ==
    /\ FailedStep =>
          (final_status' = "failed_consecutive_errors"
              <=> consecutive_action_failures + 1
                      >= MAX_CONSECUTIVE_ACTION_FAILURES)
    /\ SuccessfulStep => consecutive_action_failures' = 0
ConsecutiveFailuresEndAtK == [][KthFailureEndsTask]_vars

\* C13: a successful step whose hash equals the previous step's hash for the
\* M-th time in a row ends the task with failed_no_progress, and a
\* successful step whose hash differs from the previous step's hash sets the
\* stagnation counter to 0.
StagnationStep ==
    \A hash \in Hashes :
        (/\ steps_taken > 0
         /\ \/ ExecuteAction(hash, TRUE)
            \/ \E sel \in Selectors :
                  TapBySelector(hash, sel) /\ last_action_result' = "ok") =>
            /\ (hash = task_state.last_screenshot_hash
                  /\ steps_without_state_change + 1
                         >= MAX_STEPS_WITHOUT_STATE_CHANGE)
                   => final_status' = "failed_no_progress"
            /\ hash # task_state.last_screenshot_hash
                   => steps_without_state_change' = 0
StagnationCounted == [][StagnationStep]_vars

\* C14: a failed capture adds one to the consecutive-failure counter and the
\* loop goes on with the next step, unless the counter has reached K: then
\* the task ends with failed_consecutive_errors.
CaptureFailureStep ==
    CaptureFailed =>
        /\ consecutive_action_failures' = consecutive_action_failures + 1
        /\ requested' = "nothing"
        /\ final_status' =
               IF consecutive_action_failures'
                      >= MAX_CONSECUTIVE_ACTION_FAILURES
               THEN "failed_consecutive_errors" ELSE "unknown"
CaptureFailureIsCounted == [][CaptureFailureStep]_vars

\* C15: a failure reported by the Reasoner adds exactly one to the
\* consecutive-failure counter; the task ends with failed_consecutive_errors
\* when the counter reaches K, otherwise the loop goes on without acting.
AgentFailureStep ==
    AgentFailed =>
        /\ consecutive_action_failures' = consecutive_action_failures + 1
        /\ requested' = "nothing"
        /\ final_status' =
               IF consecutive_action_failures'
                      >= MAX_CONSECUTIVE_ACTION_FAILURES
               THEN "failed_consecutive_errors" ELSE "unknown"
AgentFailureIsCounted == [][AgentFailureStep]_vars

\* the selector has neither capability flag
NoFlag(sel) == ~sel.is_clickable /\ ~sel.is_long_clickable

\* the selectors with neither flag, and the sets of hashes the legacy loop
\* may hold as failed
NoFlagSelectors == {x \in Selectors : NoFlag(x)}
LegacyMemories == SUBSET {selector_hash(x) : x \in Selectors}

\* the selectors a deque holds
Recorded(q) == {q[i] : i \in 1..Len(q)}

\* C16: a tap_by_selector whose selector has neither is_clickable nor
\* is_long_clickable is rejected before dispatch, whatever its other fields:
\* in run_task_loop the step sends nothing and ends as a forced re-plan, in
\* the legacy loop the check before execution blocks it.
NonActionableTapStep ==
    /\ \/ ~Running
       \/ /\ requested' = "nothing"
          /\ last_action_result' \in {"replan_guardrail", "replan_memory"}
       \/ \A sel \in NoFlagSelectors, hash \in Hashes :
              ~TapBySelector(hash, sel)
    /\ \/ implementation # "legacy"
       \/ pre_execution' = "blocked"
       \/ \A sel \in NoFlagSelectors, hs \in LegacyMemories :
              ~LegacyTapBySelector(sel, hs)
NonActionableTapRejected == [][NonActionableTapStep]_vars

\* a tap on a non-actionable selector was blocked by the guardrail and
\* recorded, a later tap was rejected without a request
GuardrailBlockedTap ==
    /\ Running
    /\ requested = "nothing"
    /\ last_action_result = "replan_guardrail"
    /\ Len(recent_failed_tap_selectors) >= 2
    /\ \A sel \in Recorded(recent_failed_tap_selectors) : NoFlag(sel)

\* C17: a tap that the guardrail rejects or whose dispatch fails is in the
\* failure memory afterwards; a tap on a selector that is in the memory is
\* rejected by the lookup, nothing is sent and the memory stays as it is;
\* a selector leaves the memory only as its oldest entry when an append
\* finds it full.
FailureMemoryStep ==
    /\ \/ ~Running
       \/ /\ requested' = "nothing"
          /\ last_action_result' = "replan_memory"
          /\ UNCHANGED recent_failed_tap_selectors
       \/ \A sel \in Recorded(recent_failed_tap_selectors), hash \in Hashes :
              ~TapBySelector(hash, sel)
    /\ (Running /\ last_action_result' \in {"replan_guardrail", "failed"}) =>
          \A sel \in Selectors \ Recorded(recent_failed_tap_selectors'),
             hash \in Hashes : ~TapBySelector(hash, sel)
    /\ \A i \in 1..Len(recent_failed_tap_selectors) :
          recent_failed_tap_selectors[i]
                  \notin Recorded(recent_failed_tap_selectors') =>
              /\ i = 1
              /\ Len(recent_failed_tap_selectors) = MAX_RECENT_FAILED_SELECTORS
              /\ Len(recent_failed_tap_selectors') = MAX_RECENT_FAILED_SELECTORS
FailedTapRejectedByMemory == [][FailureMemoryStep]_vars

\* the memory holds a selector whose dispatch failed and one the guardrail
\* blocked, and the tap of the last step was rejected by the lookup
RepeatedTapRejected ==
    /\ Running
    /\ last_action_result = "replan_memory"
    /\ requested = "nothing"
    /\ \E a, b \in Recorded(recent_failed_tap_selectors) :
          a.is_clickable /\ NoFlag(b)

\* C18: a tap whose selector has no capability flag and is in the failure
\* memory is rejected with the guardrail's reason.
GuardrailFirstStep ==
    \A sel \in NoFlagSelectors, hash \in Hashes :
        (sel \in Recorded(recent_failed_tap_selectors)
            /\ TapBySelector(hash, sel))
                => last_action_result' = "replan_guardrail"
GuardrailPrecedesMemory == [][GuardrailFirstStep]_vars

\* C19: a tap on a selector with the identity fields of a selector in the
\* failure memory is rejected by the lookup, whatever its bounds and flags.
SameIdentityStep ==
    \A sel \in Selectors, hash \in Hashes :
        ((\E d \in Recorded(recent_failed_tap_selectors) :
              d.view_id = sel.view_id)
            /\ TapBySelector(hash, sel))
                => /\ last_action_result' = "replan_memory"
                   /\ requested' = "nothing"
MemoryKeyedByIdentity == [][SameIdentityStep]_vars

\* C20: the failure memory never holds more than
\* MAX_RECENT_FAILED_SELECTORS selectors; an append to the full memory drops
\* its oldest entry and nothing else; a tap on a selector that is not in the
\* memory (an evicted one too) is not rejected by the lookup: it is sent when
\* the selector has a capability flag, and goes to the guardrail otherwise.
WithinCapacity ==
    Len(recent_failed_tap_selectors) <= MAX_RECENT_FAILED_SELECTORS
FifoStep ==
    (recent_failed_tap_selectors' # recent_failed_tap_selectors
        /\ Len(recent_failed_tap_selectors) = MAX_RECENT_FAILED_SELECTORS) =>
            /\ Len(recent_failed_tap_selectors') = MAX_RECENT_FAILED_SELECTORS
            /\ \A i \in 1..(MAX_RECENT_FAILED_SELECTORS - 1) :
                  recent_failed_tap_selectors'[i]
                      = recent_failed_tap_selectors[i + 1]
            /\ evicted' = <<recent_failed_tap_selectors[1]>>
ForgottenTapStep ==
    /\ (Running /\ last_action_result' = "replan_memory") =>
          \A sel \in Selectors \ Recorded(recent_failed_tap_selectors),
             hash \in Hashes : ~TapBySelector(hash, sel)
    /\ (Running /\ requested' # "sent") =>
          \A sel \in Selectors \ Recorded(recent_failed_tap_selectors),
             hash \in Hashes : NoFlag(sel) \/ ~TapBySelector(hash, sel)
MemoryIsBoundedFifo == []WithinCapacity /\ [][FifoStep /\ ForgottenTapStep]_vars

\* C20 as stated: the memory is bounded and first-in first-out, and a tap
\* on the target it evicted is dispatched again.
EvictedTapStep ==
    (Running /\ requested' # "sent" /\ evicted # <<>>) =>
        \A sel \in Selectors \ Recorded(recent_failed_tap_selectors),
           hash \in Hashes : evicted # <<sel>> \/ ~TapBySelector(hash, sel)
EvictedTargetSentAgain == []WithinCapacity /\ [][FifoStep /\ EvictedTapStep]_vars

\* the full memory has dropped a selector with a capability flag, which is
\* not in it now, and the tap of the last step was sent and succeeded
EvictedTargetDispatched ==
    /\ evicted # <<>>
    /\ Len(recent_failed_tap_selectors) = MAX_RECENT_FAILED_SELECTORS
    /\ \A sel \in Selectors :
          sel \in Recorded(recent_failed_tap_selectors) <=> <<sel>> # evicted
    /\ \E sel \in Selectors : <<sel>> = evicted /\ ~NoFlag(sel)
    /\ redispatched
    /\ requested = "sent"
    /\ last_action_result = "ok"
    /\ previous_state_hash # "None"

\* ------------------------------- claims about the decisions and the exits
\* C21: a done decision ends the task with the status its own success flag
\* names, completed for success = true and a failure status for
\* success = false, whatever the client answers.
DoneStep ==
    \A success, ok \in BOOLEAN :
        DoneAction(success, ok) =>
            /\ steps_taken' = steps_taken + 1
            /\ IF success THEN final_status' = "completed"
               ELSE Failing(final_status')
DoneFollowsDecision == [][DoneStep]_vars

\* C22: wait, done and request_clarification are handled locally: the step
\* sends no request to the device.
LocalControlFlowStep ==
    /\ \A kind \in ControlFlow, hash \in Hashes, ok \in BOOLEAN :
          ControlFlowAction(kind, hash, ok) => requested' = "nothing"
    /\ \A success, ok \in BOOLEAN :
          DoneAction(success, ok) => requested' = "nothing"
ControlFlowStaysLocal == [][LocalControlFlowStep]_vars

\* C23: a decision whose action kind is not recognized is a failed step,
\* the consecutive-failure counter goes up by one, and nothing is sent to
\* the device.
UnrecognizedStep ==
    \A hash \in Hashes, ok \in BOOLEAN :
        UnrecognizedAction(hash, ok) =>
            /\ requested' = "nothing"
            /\ consecutive_action_failures' = consecutive_action_failures + 1
UnrecognizedKindFails == [][UnrecognizedStep]_vars

\* C24: in the legacy loop a request_clarification decision with a question
\* sends the question once and ends the task with
\* failed_clarification_needed.
LegacyClarificationStep ==
    LegacyRequestClarification(TRUE) =>
        /\ final_status' = "failed_clarification_needed"
        /\ Cardinality({i \in DOMAIN exit_trace' :
                           exit_trace'[i] = "clarification_request"}) = 1
ClarificationAskedOnce == [][LegacyClarificationStep]_vars

\* C25: an exception in a step ends the task at once with a failure status,
\* the consecutive-failure counter stays, and the error of the result and
\* the error_message of the stored task state are the exception's message.
ExceptionStep ==
    StepException =>
        /\ Failing(final_status')
        /\ UNCHANGED consecutive_action_failures
        /\ final_result'.text = "exception_message"
        /\ task_state'.error_message = "exception_message"
ExceptionMessageReturned == [][ExceptionStep]_vars

\* C26: in the legacy loop a long_click_by_selector on a selector that is
\* not long-clickable is rejected without a request to the device, and the
\* task does not end with failed_exception.
LegacyLongClickStep ==
    \A sel \in Selectors, ok \in BOOLEAN :
        (~sel.is_long_clickable /\ LegacyLongClickBySelector(sel, ok)) =>
            /\ requested' = "nothing"
            /\ final_status' # "failed_exception"
LongClickRejectionGoesOn == [][LegacyLongClickStep]_vars

\* C27: a run makes at most max_steps passes and ends; it ends with
\* failed_max_steps only after max_steps passes, and the max_steps-th pass
\* ends the run, with failed_max_steps when the pass executed an action and
\* neither counter reached its threshold.
StepsBounded == steps_taken <= MaxSteps
MaxStepsStep ==
    Running =>
        /\ final_status' = "failed_max_steps" => steps_taken' = MaxSteps
        /\ steps_taken' = MaxSteps => final_status' # "unknown"
        /\ \A hash \in Hashes, ok \in BOOLEAN :
              (/\ steps_taken + 1 = MaxSteps
               /\ ExecuteAction(hash, ok)
               /\ consecutive_action_failures' < MAX_CONSECUTIVE_ACTION_FAILURES
               /\ steps_without_state_change' < MAX_STEPS_WITHOUT_STATE_CHANGE)
                  => final_status' = "failed_max_steps"
RunTerminates ==
    /\ []StepsBounded
    /\ [][MaxStepsStep]_vars
    /\ Running ~> ~Running

\* max_steps passes were made, the last one a successful action, and the run
\* ended with failed_max_steps
EndedAtMaxSteps ==
    /\ implementation = "android_use_agent"
    /\ final_status = "failed_max_steps"
    /\ steps_taken = MaxSteps
    /\ last_action_result = "ok"
    /\ "error" \in final_result.fields

\* C28: swipe_semantic is retried once, as a raw swipe with the same
\* direction, when the client rejected it as unsupported and the direction
\* is valid, and in no other case; the step fails when the client reported
\* another failure, when the direction of an unsupported swipe is not valid,
\* or when the retry failed.
SwipeStep ==
    \A hash \in Hashes, direction \in Directions, answer \in SwipeAnswers,
       retry_ok \in BOOLEAN :
        SwipeSemantic(hash, direction, answer, retry_ok) =>
            LET valid == direction \in {"up", "down"}
                retry == answer = "unsupported" /\ valid
                fails == \/ answer = "failed"
                         \/ answer = "unsupported" /\ ~valid
                         \/ retry /\ ~retry_ok
            IN  /\ requested' = IF retry THEN RawSwipe(direction) ELSE "sent"
                /\ last_action_result' = IF fails THEN "failed" ELSE "ok"
                /\ consecutive_action_failures' =
                       IF fails THEN consecutive_action_failures + 1 ELSE 0
UnsupportedSwipeRetriedOnce == [][SwipeStep]_vars

\* an unsupported swipe_semantic was retried as a raw swipe, the retry
\* succeeded and the step counts as successful after two failed steps
SwipeFallbackSucceeded ==
    /\ Running
    /\ requested = "swipe_down"
    /\ last_action_result = "ok"
    /\ consecutive_action_failures = 0
    /\ steps_taken = 3

\* C29: whatever way the call returned, the result holds status,
\* steps_taken, a duration and a message or an error, and the result of a
\* task completed by a done decision holds that decision's message.
ResultIsStructured ==
    (implementation = "android_use_agent"
        /\ final_status \notin {"idle", "unknown"}) =>
            /\ {"status", "steps_taken", "duration_seconds"}
                   \subseteq final_result.fields
            /\ final_result.fields \cap {"message", "error"} # {}
            /\ (final_status = "completed" /\ last_action_result = "done") =>
                   final_result.text = "decision_message"

\* C30: a call that returned a failure status has sent an error or warning
\* notification, and has sent it before it wrote the failure to
\* state['task_state'] and updated the session.
NotifiedBeforePersisted ==
    (implementation = "android_use_agent" /\ Failing(final_status)) =>
        \E i \in DOMAIN exit_trace :
            /\ exit_trace[i] \in {"error_update", "warning_update"}
            /\ \A j \in DOMAIN exit_trace :
                  exit_trace[j] \in {"write_failure", "update_session"} => i < j

\* ------------------------------------- claims about the kinds and sessions
\* C36: a call of send_request_and_wait_for_response returns only a response
\* envelope of the kind it expects: a message that echoes the correlation id
\* of the call under another type does not fulfil the waiter.
OnlyExpectedKindReturned ==
    \A l \in Handlers :
        (HasReturned(l) /\ returned[l] \notin Failures)
            => returned[l][2] = ExpectedResponseType(lkind[l])

\* C37: a message received on the connection of one session fulfils only a
\* waiter that a call of that session registered: with the correlation id
\* of a call of another session it completes nothing.
OwnSessionStep ==
    \A h \in Handlers, c \in Ids, d \in Data :
        (c \in pending_requests /\ owner[c] # hsession[h])
            => (ClientResponds(h, c, d)
                   => UNCHANGED <<pending_requests, scheduled, resolved>>)
NoCrossSessionResolve == [][OwnSessionStep]_vars

\* C40: the disconnect of a handler's cleanup removes only that handler's
\* own connection: a newer connection registered under the same session id
\* stays registered.
OwnDisconnectStep ==
    \A h \in Handlers :
        (hpc[h] # "finished" /\ hpc'[h] = "finished"
            /\ active_connections[hsession[h]] \notin {h, NoConn})
            => active_connections'[hsession[h]]
                   = active_connections[hsession[h]]
CleanupKeepsNewerConnection == [][OwnDisconnectStep]_vars

\* ------------------------------------------ claims about the session state
\* C32: the failure memory covers every action on a target: after the
\* client reports the failure of an input, copy, paste, select or long
\* click by selector the target is in the failure memory (and an identical
\* next decision is rejected from it).
FailedTargetStep ==
    \A kind \in SelectorActions, hash \in Hashes, sel \in TapTargets :
        SelectorAction(kind, hash, sel, FALSE)
            => InMemory(recent_failed_tap_selectors', sel)
FailedTargetRemembered == [][FailedTargetStep]_vars

\* C38: closing the connection destroys the task state of the session: on
\* the next connection with the same session id the failure memory is
\* empty, so a target that failed before the close is not rejected.
CloseStep ==
    connection' # connection => recent_failed_tap_selectors' = <<>>
CloseDestroysTaskState == [][CloseStep]_vars

\* C39: at every step of a run the goal handed to the Reasoner is the goal
\* the run was started with.
ReasonerCalled ==
    /\ Running
    /\ steps_taken' = steps_taken + 1
    /\ ~CaptureFailed
GoalStep == ReasonerCalled => current_goal = goal
ReasonerGetsGoalOfRun == [][GoalStep]_vars

\* C31: a wait decision of the legacy loop sleeps max(1, min(d, 10)) seconds
\* for every integer duration d and 3 seconds when no duration is given; it
\* sends nothing to the client, is recorded as a successful step and resets
\* the count of consecutive failures.
ClampedSeconds(action_params) ==
    IF action_params = <<>> THEN 3
    ELSE IF action_params[1] < 1 THEN 1
    ELSE IF action_params[1] > 10 THEN 10
    ELSE action_params[1]

WaitStep ==
    \A capture \in Hashes, action_params \in WaitParams :
        LegacyWait(capture, action_params)
            => /\ slept' = ClampedSeconds(action_params)
               /\ requested' = "nothing"
               /\ appended'
               /\ history_last'.success
               /\ last_action_result' = "ok"
               /\ consecutive_action_failures' = 0

WaitSleepsClamped == [][WaitStep]_vars

\* a wait has slept the lower limit of one second (only durations below 2
\* lead here) and the loop goes on
WaitedAtLowerLimit ==
    /\ implementation = "legacy"
    /\ slept = 1
    /\ requested = "nothing"
    /\ appended
    /\ history_last.success
    /\ consecutive_action_failures = 0
    /\ final_status = "unknown"

\* C33: every tap the legacy loop rejects before execution (guardrail or
\* failure memory) counts as a failed step: the count of consecutive
\* failures grows by one and a record is appended to the history.
RejectedTapStep ==
    \A capture \in Hashes, sel \in Selectors :
        (PreExecutionCheck(sel, failed_tap_hashes) = "blocked"
            /\ LegacyTap(capture, sel, TRUE))
            => /\ consecutive_action_failures' = consecutive_action_failures + 1
               /\ appended'

RejectedTapCounts == [][RejectedTapStep]_vars

\* C34: a pass of the legacy loop whose screenshot is the one of the stored
\* state hash always increments the count of passes without state change,
\* also after a successful node query (stated for the passes that end stuck
\* or with a step record, which show the screenshot they took).
IdenticalCaptureStep ==
    \A capture \in Hashes :
        (/\ last_state_hash # <<>>
         /\ last_state_hash[1] = capture
         /\ \/ LegacyStuck(capture)
            \/ /\ LegacyObserved(capture)
               /\ last_state_hash'[1] = capture
               /\ appended')
            => steps_without_state_change' = steps_without_state_change + 1

IdenticalCaptureCounts == [][IdenticalCaptureStep]_vars

\* C35: the state hash does not depend on the order of the node list: every
\* reordering of the hashed list has the same hash.
OrderIndependentHash ==
    state_hash # <<>>
        => \A p \in Reorderings(hashed_nodes) :
               calculate_state_hash(state_hash[1], p) = state_hash

====
